---- MODULE Spec2Model ----
(***************************************************************************)
(* A model of the CHIP-8 virtual machine of ivan-guerra/chip8:             *)
(* state.rs (memory, registers, keypad, framebuffer), instruction.rs       *)
(* (decoder and the execute method of every instruction) and emulator.rs   *)
(* (fetch and the frame loop of Emulator::run).                            *)
(*                                                                         *)
(* Representation.  Memory is the finite map of the bytes that differ from *)
(* the image Memory::new builds (font table, zero elsewhere); the          *)
(* framebuffer is the set of indices of the lit pixels of the              *)
(* DISPLAY_WIDTH * DISPLAY_HEIGHT bit array; the keypad is the HashSet of  *)
(* pressed keys (as key indices 0..15) and the escape flag.  The two       *)
(* mutexes of the keypad, the position of the listener thread in its       *)
(* closure and the position of the engine in a keypad query are followed   *)
(* where the interleaving of the two threads is the question.              *)
(***************************************************************************)
EXTENDS Integers, Sequences, FiniteSets, TLC

VARIABLES
    state,      \* Chip8State: settings, memory, registers, pc, index, stack,
                \* delay_timer, sound_timer, display, keypad
    beeper,     \* Emulator.beeper: TRUE while the tone plays
    raw_mode,   \* terminal raw mode enabled
    phase,      \* where Emulator::run stands
    cycle,      \* the loop variable of  for _ in 0..=instructions_per_frame
    result,     \* what run returned (an error record), once it has returned
    rom_file,   \* the bytes of the file settings.rom names
    frames,     \* number of frame bodies begun
    events,     \* number of host key events delivered to the listener
    hist,       \* history: the last two fetch-decode-execute cycles, each with
                \* the subroutine calls not yet returned from when it began
    arg,        \* input of the pure function applied (function specifications)
    out,        \* the function applied and its output
    mutex,      \* who holds the Mutex of pressed_keys and that of escape_pressed
    listener,   \* the listener thread: where its closure stands, on which event
    engine      \* the engine thread inside a keypad query: where it stands, the
                \* key the scan of FX0A is at, what the queries returned

vars == <<state, beeper, raw_mode, phase, cycle, result, rom_file, frames,
          events, hist, arg, out, mutex, listener, engine>>

(***************************************************************************)
(* Constants of state.rs                                                   *)
(***************************************************************************)
MEM_SIZE == 4096
FONT_ADDR == 80
FONT_HEIGHT == 5
PC_START_ADDR == 512
NUM_REGISTERS == 16
DISPLAY_WIDTH == 64
DISPLAY_HEIGHT == 32
DEFAULT_FRAME_RATE == 60
DEFAULT_INSTRUCTIONS_PER_SECOND == 700

(***************************************************************************)
(* Bounds of the model                                                     *)
(***************************************************************************)
MaxFrames == 8      \* frame bodies a run may begin
MaxEvents == 2      \* host key events the listener may receive

(***************************************************************************)
(* u8 / u16 arithmetic                                                     *)
(***************************************************************************)
Pow2(k) == 2 ^ k

Bit(v, k) == (v \div Pow2(k)) % 2

Byte == 0 .. 255

\* a & b, a | b, a ^ b on values below 2^16
BitAnd(a, b) ==
    LET f[k \in 0 .. 16] ==
            IF k = 16 THEN 0
            ELSE (IF Bit(a, k) = 1 /\ Bit(b, k) = 1 THEN Pow2(k) ELSE 0) + f[k + 1]
    IN  f[0]

BitOr(a, b) ==
    LET f[k \in 0 .. 16] ==
            IF k = 16 THEN 0
            ELSE (IF Bit(a, k) = 1 \/ Bit(b, k) = 1 THEN Pow2(k) ELSE 0) + f[k + 1]
    IN  f[0]

BitXor(a, b) ==
    LET f[k \in 0 .. 16] ==
            IF k = 16 THEN 0
            ELSE (IF Bit(a, k) # Bit(b, k) THEN Pow2(k) ELSE 0) + f[k + 1]
    IN  f[0]

WrappingAdd8(a, b) == (a + b) % 256

WrappingSub8(a, b) == (a - b + 256) % 256

\* a faulty saturating_sub: below zero it wraps round to 255
SubWrapsBelowZero(a, b) == (a - b + 256) % 256

SaturatingSub8(a, b) == IF a >= b THEN a - b ELSE 0

(***************************************************************************)
(* anyhow::Result: an error is a record of its kind, the message the code  *)
(* formats and the value formatted into it.                                *)
(***************************************************************************)
NoError == [kind |-> "Ok", msg |-> "", arg |-> 0]

Error(kind, msg, a) == [kind |-> kind, msg |-> msg, arg |-> a]

IsOk(e) == e.kind = "Ok"

(***************************************************************************)
(* Memory (state.rs 73-160)                                                *)
(***************************************************************************)
FontData ==
    << \hF0, \h90, \h90, \h90, \hF0,
       \h20, \h60, \h20, \h20, \h70,
       \hF0, \h10, \hF0, \h80, \hF0,
       \hF0, \h10, \hF0, \h10, \hF0,
       \h90, \h90, \hF0, \h10, \h10,
       \hF0, \h80, \hF0, \h10, \hF0,
       \hF0, \h80, \hF0, \h90, \hF0,
       \hF0, \h10, \h20, \h40, \h40,
       \hF0, \h90, \hF0, \h90, \hF0,
       \hF0, \h90, \hF0, \h10, \hF0,
       \hF0, \h90, \hF0, \h90, \h90,
       \hE0, \h90, \hE0, \h90, \hE0,
       \hF0, \h80, \h80, \h80, \hF0,
       \hE0, \h90, \h90, \h90, \hE0,
       \hF0, \h80, \hF0, \h80, \hF0,
       \hF0, \h80, \hF0, \h80, \h80 >>

\* data[a] right after Memory::new: the font at FONT_ADDR, zero elsewhere
FreshByte(a) ==
    IF a >= FONT_ADDR /\ a < FONT_ADDR + Len(FontData)
    THEN FontData[a - FONT_ADDR + 1]
    ELSE 0

\* Memory::new: no byte differs from the fresh image
MemoryNew == [a \in {} |-> 0]

\* data[a], for a < MEM_SIZE
MemByte(m, a) == IF a \in DOMAIN m THEN m[a] ELSE FreshByte(a)

\* data[a] = v, for a < MEM_SIZE
MemSet(m, a, v) ==
    LET dom == IF v = FreshByte(a) THEN DOMAIN m \ {a} ELSE DOMAIN m \cup {a}
    IN  [b \in dom |-> IF b = a THEN v ELSE m[b]]

\* Memory::read
MemRead(m, addr) ==
    IF addr >= MEM_SIZE
    THEN [err |-> Error("OutOfBounds", "Memory read out of bounds", addr), val |-> 0]
    ELSE [err |-> NoError, val |-> MemByte(m, addr)]

\* a faulty write: an address past the end wraps around to the start
MemWriteWrapping(m, addr, value) ==
    [err |-> NoError, mem |-> MemSet(m, addr % MEM_SIZE, value)]

\* Memory::write
MemWrite(m, addr, value) ==
    IF addr >= MEM_SIZE
    THEN [err |-> Error("OutOfBounds", "Memory write out of bounds", addr), mem |-> m]
    ELSE [err |-> NoError, mem |-> MemSet(m, addr, value)]

\* data[PC_START_ADDR .. PC_START_ADDR + rom.len()].copy_from_slice(rom)
CopyRom(m, rom) ==
    LET target == PC_START_ADDR .. PC_START_ADDR + Len(rom) - 1
        byte(a) == IF a \in target THEN rom[a - PC_START_ADDR + 1] ELSE MemByte(m, a)
    IN  [a \in {b \in DOMAIN m \cup target : byte(b) # FreshByte(b)} |-> byte(a)]

\* a faulty load_rom: a program that fills memory to its last byte is refused
LoadRomOneLess(m, rom) ==
    IF Len(rom) >= MEM_SIZE - PC_START_ADDR
    THEN [err |-> Error("ProgramTooLarge", "ROM too large to fit in memory", Len(rom)),
          mem |-> m]
    ELSE [err |-> NoError, mem |-> CopyRom(m, rom)]

\* Memory::load_rom
LoadRom(m, rom) ==
    IF Len(rom) > MEM_SIZE - PC_START_ADDR
    THEN [err |-> Error("ProgramTooLarge", "ROM too large to fit in memory", Len(rom)),
          mem |-> m]
    ELSE [err |-> NoError, mem |-> CopyRom(m, rom)]

\* Memory::read_sprite: the slice data[index .. index + rows]
ReadSprite(m, index, rows) ==
    IF index + rows > MEM_SIZE
    THEN [err |-> Error("OutOfBounds", "Sprite data out of bounds", index + rows),
          val |-> << >>]
    ELSE [err |-> NoError, val |-> [r \in 1 .. rows |-> MemByte(m, index + r - 1)]]

(***************************************************************************)
(* Register, RegisterBank, Key (state.rs 168-281)                          *)
(***************************************************************************)
VF == 15

\* Register::from_index
RegisterFromIndex(value) ==
    IF value \in 0 .. 15 THEN NoError
    ELSE Error("InvalidRegister", "Invalid register index", value)

\* RegisterBank::new
RegisterBankNew == [r \in 0 .. NUM_REGISTERS - 1 |-> 0]

\* RegisterBank::write
RegWrite(regs, reg, value) == [regs EXCEPT ![reg] = value]

\* Key::from_index
KeyFromIndex(index) ==
    IF index \in 0 .. 15 THEN NoError
    ELSE Error("InvalidKey", "Invalid key index", index)

\* Key::from_rdev: the keypad key of a host key, -1 for None
KeyFromRdev(key) ==
    CASE key = "Num1" -> 1   [] key = "Num2" -> 2   [] key = "Num3" -> 3
      [] key = "Num4" -> 12  [] key = "KeyQ" -> 4   [] key = "KeyW" -> 5
      [] key = "KeyE" -> 6   [] key = "KeyR" -> 13  [] key = "KeyA" -> 7
      [] key = "KeyS" -> 8   [] key = "KeyD" -> 9   [] key = "KeyF" -> 14
      [] key = "KeyZ" -> 10  [] key = "KeyX" -> 0   [] key = "KeyC" -> 11
      [] key = "KeyV" -> 15  [] OTHER -> -1

\* Keypad::new
KeypadNew == [pressed_keys |-> {}, escape_pressed |-> FALSE]

\* Keypad::is_key_pressed
IsKeyPressed(keypad, key) == key \in keypad.pressed_keys

\* a faulty release_key: the key stays pressed
ReleaseKeyKept(keypad, key) == keypad

\* Keypad::release_key
ReleaseKey(keypad, key) ==
    [keypad EXCEPT !.pressed_keys = keypad.pressed_keys \ {key}]

\* Keypad::is_escape_pressed
IsEscapePressed(keypad) == keypad.escape_pressed

(***************************************************************************)
(* Chip8State (state.rs 485-566)                                           *)
(***************************************************************************)
\* Chip8State::new
Chip8StateNew(settings) ==
    [settings |-> settings,
     memory |-> MemoryNew,
     registers |-> RegisterBankNew,
     pc |-> PC_START_ADDR,
     index |-> 0,
     stack |-> << >>,
     delay_timer |-> 0,
     sound_timer |-> 0,
     display |-> {},
     keypad |-> KeypadNew]

\* Chip8State::clear_display
ClearDisplay(s) == [s EXCEPT !.display = {}]

\* a faulty display.set: it lights pixels and never clears one
BitSetOnly(display, index, value) == IF value THEN display \cup {index} ELSE display

\* display.set(index, value) on the bit array
BitSet(display, index, value) == {p \in display \cup {index} : p # index \/ value}

\* the values of the pair (self.display, collision) inside draw_sprite
DrawAcc == [display : SUBSET (0 .. DISPLAY_WIDTH * DISPLAY_HEIGHT - 1), collision : BOOLEAN]

\* the inner loop of draw_sprite,  for bit in 0..8;  step[bit, acc] is the
\* pair after the iterations from bit on, entered with the pair acc
DrawRow(byte, row, x, y, acc0) ==
    LET step[bit \in 0 .. 8, acc \in DrawAcc] ==
            IF bit >= 8 THEN acc
            ELSE
                LET pixel_x == x + bit
                    pixel_y == y + row
                    index == pixel_y * DISPLAY_WIDTH + pixel_x
                    current_pixel == index \in acc.display
                    new_pixel == Bit(byte, 7 - bit) = 1
                IN  IF pixel_x >= DISPLAY_WIDTH \/ pixel_y >= DISPLAY_HEIGHT
                    THEN step[bit + 1, acc]
                    ELSE step[bit + 1,
                              [display |-> BitSet(acc.display, index, current_pixel # new_pixel),
                               collision |-> current_pixel /\ new_pixel]]
    IN  step[0, acc0]

\* the outer loop of draw_sprite,  for (row, &byte) in sprite.iter().enumerate()
DrawRows(sprite, x, y, acc0) ==
    LET step[row \in 0 .. Len(sprite), acc \in DrawAcc] ==
            IF row >= Len(sprite) THEN acc
            ELSE step[row + 1, DrawRow(sprite[row + 1], row, x, y, acc)]
    IN  step[0, acc0]

\* a faulty draw_sprite: it draws and never reports a collision
DrawSpriteNoCollision(s, x, y, sprite_idx) ==
    LET sprite == ReadSprite(s.memory, s.index, sprite_idx)
        drawn == DrawRows(sprite.val, x, y, [display |-> s.display, collision |-> FALSE])
    IN  IF ~IsOk(sprite.err)
        THEN [err |-> sprite.err, state |-> s, collision |-> FALSE]
        ELSE [err |-> NoError,
              state |-> [s EXCEPT !.display = drawn.display],
              collision |-> FALSE]

\* Chip8State::draw_sprite
DrawSprite(s, x, y, sprite_idx) ==
    LET sprite == ReadSprite(s.memory, s.index, sprite_idx)
        drawn == DrawRows(sprite.val, x, y, [display |-> s.display, collision |-> FALSE])
    IN  IF ~IsOk(sprite.err)
        THEN [err |-> sprite.err, state |-> s, collision |-> FALSE]
        ELSE [err |-> NoError,
              state |-> [s EXCEPT !.display = drawn.display],
              collision |-> drawn.collision]

(***************************************************************************)
(* Decoder (instruction.rs 39-131)                                         *)
(***************************************************************************)
\* DecodedInstruction::new; a mask of low bits is the remainder by a power of 2
DecodedInstructionNew(raw) ==
    [opcode |-> raw \div 4096,
     x |-> (raw \div 256) % 16,
     y |-> (raw \div 16) % 16,
     n |-> raw % 16,
     nn |-> raw % 256,
     nnn |-> raw % 4096]

\* a faulty error value: it carries the top digit of the word only
UnsupportedDigit(msg, raw) == Error("UnsupportedOpcode", msg, raw \div 4096)

Unsupported(msg, raw) == Error("UnsupportedOpcode", msg, raw)

\* the match on decoded.nnn of opcode 0x0
Decode0(d) ==
    CASE d.nnn = 224 -> "ClearScreen"
      [] d.nnn = 238 -> "SubroutineReturn"
      [] OTHER -> ""

\* a faulty match on decoded.n: 0xF is taken for a shift too
Decode8Wide(d) ==
    CASE d.n = 0 -> "SetXToY"
      [] d.n = 1 -> "BinaryOr"
      [] d.n = 2 -> "BinaryAnd"
      [] d.n = 3 -> "LogicalXor"
      [] d.n = 4 -> "BinaryAdd"
      [] d.n = 5 -> "SubtractYFromX"
      [] d.n = 6 -> "RightShift"
      [] d.n = 7 -> "SubtractXFromY"
      [] d.n \in {14, 15} -> "LeftShift"
      [] OTHER -> ""

\* the match on decoded.n of opcode 0x8
Decode8(d) ==
    CASE d.n = 0 -> "SetXToY"
      [] d.n = 1 -> "BinaryOr"
      [] d.n = 2 -> "BinaryAnd"
      [] d.n = 3 -> "LogicalXor"
      [] d.n = 4 -> "BinaryAdd"
      [] d.n = 5 -> "SubtractYFromX"
      [] d.n = 6 -> "RightShift"
      [] d.n = 7 -> "SubtractXFromY"
      [] d.n = 14 -> "LeftShift"
      [] OTHER -> ""

\* the match on decoded.nn of opcode 0xE
DecodeE(d) ==
    CASE d.nn = 158 -> "SkipIfKeyPressed"
      [] d.nn = 161 -> "SkipIfKeyNotPressed"
      [] OTHER -> ""

\* the match on decoded.nn of opcode 0xF
DecodeF(d) ==
    CASE d.nn = 7 -> "SetVxFromTimer"
      [] d.nn = 21 -> "SetDelayTimer"
      [] d.nn = 24 -> "SetSoundTimer"
      [] d.nn = 30 -> "AddToIndex"
      [] d.nn = 41 -> "FontChar"
      [] d.nn = 51 -> "BinaryCodedDecimal"
      [] d.nn = 85 -> "Store"
      [] d.nn = 101 -> "Load"
      [] d.nn = 10 -> "GetKey"
      [] OTHER -> ""

\* the instruction type decode builds for the word, "" where it returns Err
DecodeName(d) ==
    CASE d.opcode = 0 -> Decode0(d)
      [] d.opcode = 1 -> "Jump"
      [] d.opcode = 2 -> "SubroutineCall"
      [] d.opcode = 3 -> "JumpEqX"
      [] d.opcode = 4 -> "JumpNeqX"
      [] d.opcode = 5 -> "JumpXEqY"
      [] d.opcode = 6 -> "SetImmediate"
      [] d.opcode = 7 -> "Add"
      [] d.opcode = 8 -> Decode8(d)
      [] d.opcode = 9 -> "JumpXNeqY"
      [] d.opcode = 10 -> "SetIndex"
      [] d.opcode = 11 -> "JumpWithOffset"
      [] d.opcode = 12 -> "Random"
      [] d.opcode = 13 -> "Display"
      [] d.opcode = 14 -> DecodeE(d)
      [] d.opcode = 15 -> DecodeF(d)
      [] OTHER -> ""

\* the message of the Err decode returns for the word
DecodeMessage(d) ==
    CASE d.opcode = 0 -> "Unsupported request for execute machine language routine"
      [] d.opcode = 8 -> "Unsupported opcode for 0x8"
      [] d.opcode = 14 -> "Unsupported opcode for 0xE"
      [] d.opcode = 15 -> "Unsupported opcode for 0xF"
      [] OTHER -> "Unknown opcode"

\* decode: the instruction (its type name and its DecodedInstruction), or the error
Decode(raw) ==
    LET d == DecodedInstructionNew(raw)
        name == DecodeName(d)
    IN  IF name = ""
        THEN [err |-> Unsupported(DecodeMessage(d), IF d.opcode \in {0, 8, 14, 15} THEN raw ELSE d.opcode),
              name |-> "", d |-> d]
        ELSE [err |-> NoError, name |-> name, d |-> d]

(***************************************************************************)
(* Instruction::execute of every instruction (instruction.rs 137-760).     *)
(* Each takes the state execute receives (after the fetch advanced pc) and *)
(* the decoded fields, and gives the state it leaves and its Result.       *)
(***************************************************************************)
Done(s) == [state |-> s, err |-> NoError]

Failed(s, e) == [state |-> s, err |-> e]

\* the error of the first failing Register::from_index(..)? of two, if any
RegErr(a, b) ==
    IF ~IsOk(RegisterFromIndex(a)) THEN RegisterFromIndex(a) ELSE RegisterFromIndex(b)

ClearScreen(s, d) == Done(ClearDisplay(s))

\* a faulty 1NNN: it lands on the instruction after the target
JumpPastTarget(s, d) == Done([s EXCEPT !.pc = d.nnn + 2])

Jump(s, d) == Done([s EXCEPT !.pc = d.nnn])

\* a faulty 00EE: it returns to the oldest address on the stack
SubroutineReturnOldest(s, d) ==
    IF Len(s.stack) > 0
    THEN Done([s EXCEPT !.pc = s.stack[1], !.stack = Tail(s.stack)])
    ELSE Failed(s, Error("StackUnderflow", "Stack underflow: No return address available", 0))

\* a faulty 00EE: on an empty stack it does nothing and succeeds
SubroutineReturnLenient(s, d) ==
    IF Len(s.stack) > 0
    THEN Done([s EXCEPT !.pc = s.stack[Len(s.stack)],
                        !.stack = SubSeq(s.stack, 1, Len(s.stack) - 1)])
    ELSE Done(s)

SubroutineCall(s, d) ==
    Done([s EXCEPT !.stack = Append(s.stack, s.pc), !.pc = d.nnn])

SubroutineReturn(s, d) ==
    IF Len(s.stack) > 0
    THEN Done([s EXCEPT !.pc = s.stack[Len(s.stack)],
                        !.stack = SubSeq(s.stack, 1, Len(s.stack) - 1)])
    ELSE Failed(s, Error("StackUnderflow", "Stack underflow: No return address available", 0))

JumpEqX(s, d) ==
    IF ~IsOk(RegErr(d.x, d.x)) THEN Failed(s, RegErr(d.x, d.x))
    ELSE IF s.registers[d.x] = d.nn THEN Done([s EXCEPT !.pc = s.pc + 2]) ELSE Done(s)

JumpNeqX(s, d) ==
    IF ~IsOk(RegErr(d.x, d.x)) THEN Failed(s, RegErr(d.x, d.x))
    ELSE IF s.registers[d.x] # d.nn THEN Done([s EXCEPT !.pc = s.pc + 2]) ELSE Done(s)

JumpXEqY(s, d) ==
    IF ~IsOk(RegErr(d.x, d.y)) THEN Failed(s, RegErr(d.x, d.y))
    ELSE IF s.registers[d.x] = s.registers[d.y]
         THEN Done([s EXCEPT !.pc = s.pc + 2]) ELSE Done(s)

JumpXNeqY(s, d) ==
    IF ~IsOk(RegErr(d.x, d.y)) THEN Failed(s, RegErr(d.x, d.y))
    ELSE IF s.registers[d.x] # s.registers[d.y]
         THEN Done([s EXCEPT !.pc = s.pc + 2]) ELSE Done(s)

SetImmediate(s, d) ==
    IF ~IsOk(RegErr(d.x, d.x)) THEN Failed(s, RegErr(d.x, d.x))
    ELSE Done([s EXCEPT !.registers = RegWrite(s.registers, d.x, d.nn)])

\* a faulty 7XNN: it reports the overflow of the addition in VF
AddWithCarryFlag(s, d) ==
    IF ~IsOk(RegErr(d.x, d.x)) THEN Failed(s, RegErr(d.x, d.x))
    ELSE LET sum == s.registers[d.x] + d.nn
         IN  Done([s EXCEPT !.registers =
                      RegWrite(RegWrite(s.registers, d.x, sum % 256), VF,
                               IF sum > 255 THEN 1 ELSE s.registers[VF])])

Add(s, d) ==
    IF ~IsOk(RegErr(d.x, d.x)) THEN Failed(s, RegErr(d.x, d.x))
    ELSE Done([s EXCEPT !.registers =
                 RegWrite(s.registers, d.x, WrappingAdd8(s.registers[d.x], d.nn))])

SetXToY(s, d) ==
    IF ~IsOk(RegErr(d.x, d.y)) THEN Failed(s, RegErr(d.x, d.y))
    ELSE Done([s EXCEPT !.registers = RegWrite(s.registers, d.x, s.registers[d.y])])

\* a faulty pair of writes: VF first, Vx last
WriteFThenX(s, x, value, flag) ==
    [s EXCEPT !.registers = RegWrite(RegWrite(s.registers, VF, flag), x, value)]

\* write Vx, then VF: the two writes every 8XY_ instruction ends with
WriteXThenF(s, x, value, flag) ==
    [s EXCEPT !.registers = RegWrite(RegWrite(s.registers, x, value), VF, flag)]

BinaryOr(s, d) ==
    IF ~IsOk(RegErr(d.x, d.y)) THEN Failed(s, RegErr(d.x, d.y))
    ELSE Done(WriteXThenF(s, d.x, BitOr(s.registers[d.x], s.registers[d.y]), 0))

BinaryAnd(s, d) ==
    IF ~IsOk(RegErr(d.x, d.y)) THEN Failed(s, RegErr(d.x, d.y))
    ELSE Done(WriteXThenF(s, d.x, BitAnd(s.registers[d.x], s.registers[d.y]), 0))

LogicalXor(s, d) ==
    IF ~IsOk(RegErr(d.x, d.y)) THEN Failed(s, RegErr(d.x, d.y))
    ELSE Done(WriteXThenF(s, d.x, BitXor(s.registers[d.x], s.registers[d.y]), 0))

\* a faulty 8XY4: the carry is also reported when the sum equals Vx
BinaryAddCarryOnEqual(s, d) ==
    IF ~IsOk(RegErr(d.x, d.y)) THEN Failed(s, RegErr(d.x, d.y))
    ELSE LET value_x == s.registers[d.x]
             value_y == s.registers[d.y]
             sum == WrappingAdd8(value_x, value_y)
         IN  Done(WriteXThenF(s, d.x, sum, IF sum <= value_x THEN 1 ELSE 0))

BinaryAdd(s, d) ==
    IF ~IsOk(RegErr(d.x, d.y)) THEN Failed(s, RegErr(d.x, d.y))
    ELSE LET value_x == s.registers[d.x]
             value_y == s.registers[d.y]
             sum == WrappingAdd8(value_x, value_y)
         IN  Done(WriteXThenF(s, d.x, sum, IF sum < value_x THEN 1 ELSE 0))

\* a faulty 8XY5: the borrow is taken when the operands are equal
SubtractYFromXStrict(s, d) ==
    IF ~IsOk(RegErr(d.x, d.y)) THEN Failed(s, RegErr(d.x, d.y))
    ELSE LET value_x == s.registers[d.x]
             value_y == s.registers[d.y]
         IN  IF value_x > value_y
             THEN Done(WriteXThenF(s, d.x, value_x - value_y, 1))
             ELSE Done(WriteXThenF(s, d.x, WrappingSub8(value_x, value_y), 0))

SubtractYFromX(s, d) ==
    IF ~IsOk(RegErr(d.x, d.y)) THEN Failed(s, RegErr(d.x, d.y))
    ELSE LET value_x == s.registers[d.x]
             value_y == s.registers[d.y]
         IN  IF value_x >= value_y
             THEN Done(WriteXThenF(s, d.x, value_x - value_y, 1))
             ELSE Done(WriteXThenF(s, d.x, WrappingSub8(value_x, value_y), 0))

SubtractXFromY(s, d) ==
    IF ~IsOk(RegErr(d.x, d.y)) THEN Failed(s, RegErr(d.x, d.y))
    ELSE LET value_x == s.registers[d.x]
             value_y == s.registers[d.y]
         IN  IF value_y >= value_x
             THEN Done(WriteXThenF(s, d.x, value_y - value_x, 1))
             ELSE Done(WriteXThenF(s, d.x, WrappingSub8(value_y, value_x), 0))

\* a faulty 8XY6: Vx is shifted in place, Vy is not read
RightShiftInPlace(s, d) ==
    IF ~IsOk(RegErr(d.x, d.y)) THEN Failed(s, RegErr(d.x, d.y))
    ELSE LET value_x == s.registers[d.x]
         IN  Done(WriteXThenF(s, d.x, value_x \div 2, BitAnd(value_x, 1)))

RightShift(s, d) ==
    IF ~IsOk(RegErr(d.x, d.y)) THEN Failed(s, RegErr(d.x, d.y))
    ELSE LET value_x == s.registers[d.y]
         IN  Done(WriteXThenF(s, d.x, value_x \div 2, BitAnd(value_x, 1)))

\* a faulty 8XYE: the flag is written before the result
LeftShiftFlagFirst(s, d) ==
    IF ~IsOk(RegErr(d.x, d.y)) THEN Failed(s, RegErr(d.x, d.y))
    ELSE LET value_x == s.registers[d.y]
         IN  Done(WriteFThenX(s, d.x, (value_x * 2) % 256, BitAnd(value_x, 128) \div 128))

LeftShift(s, d) ==
    IF ~IsOk(RegErr(d.x, d.y)) THEN Failed(s, RegErr(d.x, d.y))
    ELSE LET value_x == s.registers[d.y]
         IN  Done(WriteXThenF(s, d.x, (value_x * 2) % 256, BitAnd(value_x, 128) \div 128))

SetIndex(s, d) == Done([s EXCEPT !.index = d.nnn])

JumpWithOffset(s, d) == Done([s EXCEPT !.pc = s.registers[0] + d.nnn])

\* rnd is the byte rand::random::<u8>() returns
Random(s, d, rnd) ==
    IF ~IsOk(RegErr(d.x, d.x)) THEN Failed(s, RegErr(d.x, d.x))
    ELSE Done([s EXCEPT !.registers = RegWrite(s.registers, d.x, BitAnd(rnd, d.nn))])

\* a faulty DXYN: the origin is (Vx, Vy), not reduced modulo the screen size
DisplayUnwrapped(s, d) ==
    IF ~IsOk(RegErr(d.x, d.y)) THEN Failed(s, RegErr(d.x, d.y))
    ELSE LET s0 == [s EXCEPT !.registers = RegWrite(s.registers, VF, 0)]
             drawn == DrawSprite(s0, s.registers[d.x], s.registers[d.y], d.n)
         IN  IF ~IsOk(drawn.err) THEN Failed(s0, drawn.err)
             ELSE Done([drawn.state EXCEPT !.registers =
                          RegWrite(drawn.state.registers, VF,
                                   IF drawn.collision THEN 1 ELSE 0)])

Display(s, d) ==
    IF ~IsOk(RegErr(d.x, d.y)) THEN Failed(s, RegErr(d.x, d.y))
    ELSE LET x == s.registers[d.x]
             y == s.registers[d.y]
             s0 == [s EXCEPT !.registers = RegWrite(s.registers, VF, 0)]
             drawn == DrawSprite(s0, x % DISPLAY_WIDTH, y % DISPLAY_HEIGHT, d.n)
         IN  IF ~IsOk(drawn.err) THEN Failed(s0, drawn.err)
             ELSE Done([drawn.state EXCEPT !.registers =
                          RegWrite(drawn.state.registers, VF,
                                   IF drawn.collision THEN 1 ELSE 0)])

\* a faulty EX9E: the low four bits of Vx name the key, whatever Vx holds
SkipIfKeyPressedMasked(s, d) ==
    IF ~IsOk(RegErr(d.x, d.x)) THEN Failed(s, RegErr(d.x, d.x))
    ELSE IF IsKeyPressed(s.keypad, s.registers[d.x] % 16)
         THEN Done([s EXCEPT !.pc = s.pc + 2]) ELSE Done(s)

SkipIfKeyPressed(s, d) ==
    IF ~IsOk(RegErr(d.x, d.x)) THEN Failed(s, RegErr(d.x, d.x))
    ELSE LET value_x == s.registers[d.x]
         IN  IF ~IsOk(KeyFromIndex(value_x)) THEN Failed(s, KeyFromIndex(value_x))
             ELSE IF IsKeyPressed(s.keypad, value_x)
                  THEN Done([s EXCEPT !.pc = s.pc + 2]) ELSE Done(s)

\* a faulty EXA1: a value that is no key counts as a key not pressed
SkipIfKeyNotPressedAnyValue(s, d) ==
    IF ~IsOk(RegErr(d.x, d.x)) THEN Failed(s, RegErr(d.x, d.x))
    ELSE IF ~IsKeyPressed(s.keypad, s.registers[d.x])
         THEN Done([s EXCEPT !.pc = s.pc + 2]) ELSE Done(s)

SkipIfKeyNotPressed(s, d) ==
    IF ~IsOk(RegErr(d.x, d.x)) THEN Failed(s, RegErr(d.x, d.x))
    ELSE LET value_x == s.registers[d.x]
         IN  IF ~IsOk(KeyFromIndex(value_x)) THEN Failed(s, KeyFromIndex(value_x))
             ELSE IF ~IsKeyPressed(s.keypad, value_x)
                  THEN Done([s EXCEPT !.pc = s.pc + 2]) ELSE Done(s)

SetVxFromTimer(s, d) ==
    IF ~IsOk(RegErr(d.x, d.x)) THEN Failed(s, RegErr(d.x, d.x))
    ELSE Done([s EXCEPT !.registers = RegWrite(s.registers, d.x, s.delay_timer)])

SetDelayTimer(s, d) ==
    IF ~IsOk(RegErr(d.x, d.x)) THEN Failed(s, RegErr(d.x, d.x))
    ELSE Done([s EXCEPT !.delay_timer = s.registers[d.x]])

SetSoundTimer(s, d) ==
    IF ~IsOk(RegErr(d.x, d.x)) THEN Failed(s, RegErr(d.x, d.x))
    ELSE Done([s EXCEPT !.sound_timer = s.registers[d.x]])

\* a faulty FX1E: the sum is kept to the twelve bits of an address
AddToIndexMasked(s, d) ==
    IF ~IsOk(RegErr(d.x, d.x)) THEN Failed(s, RegErr(d.x, d.x))
    ELSE Done([s EXCEPT !.index = (s.index + s.registers[d.x]) % MEM_SIZE])

AddToIndex(s, d) ==
    IF ~IsOk(RegErr(d.x, d.x)) THEN Failed(s, RegErr(d.x, d.x))
    ELSE Done([s EXCEPT !.index = s.index + s.registers[d.x]])

\* a faulty FX29: the whole of Vx selects the glyph, not its low four bits
FontCharWholeByte(s, d) ==
    IF ~IsOk(RegErr(d.x, d.x)) THEN Failed(s, RegErr(d.x, d.x))
    ELSE Done([s EXCEPT !.index = s.registers[d.x] * FONT_HEIGHT + FONT_ADDR])

FontChar(s, d) ==
    IF ~IsOk(RegErr(d.x, d.x)) THEN Failed(s, RegErr(d.x, d.x))
    ELSE Done([s EXCEPT !.index =
                 BitAnd(s.registers[d.x], 15) * FONT_HEIGHT + FONT_ADDR])

\* the loop  for (i, &digit) in bcd.iter().enumerate(): write, stop at the first Err
RECURSIVE BcdLoop(_, _, _)
BcdLoop(s, bcd, i) ==
    IF i >= Len(bcd) THEN Done(s)
    ELSE LET w == MemWrite(s.memory, s.index + i, bcd[i + 1])
         IN  IF ~IsOk(w.err) THEN Failed(s, w.err)
             ELSE BcdLoop([s EXCEPT !.memory = w.mem], bcd, i + 1)

\* a faulty FX33: the digits are written ones first
BinaryCodedDecimalReversed(s, d) ==
    IF ~IsOk(RegErr(d.x, d.x)) THEN Failed(s, RegErr(d.x, d.x))
    ELSE LET value_x == s.registers[d.x]
         IN  BcdLoop(s, << value_x % 10, (value_x \div 10) % 10, (value_x \div 100) % 10 >>, 0)

BinaryCodedDecimal(s, d) ==
    IF ~IsOk(RegErr(d.x, d.x)) THEN Failed(s, RegErr(d.x, d.x))
    ELSE LET value_x == s.registers[d.x]
         IN  BcdLoop(s, << (value_x \div 100) % 10, (value_x \div 10) % 10, value_x % 10 >>, 0)

\* the loop of Store over (index + j, j), j in 0..=x: write, stop at the first Err
RECURSIVE StoreLoop(_, _, _)
StoreLoop(s, x, j) ==
    IF j > x THEN Done(s)
    ELSE IF ~IsOk(RegisterFromIndex(j)) THEN Failed(s, RegisterFromIndex(j))
    ELSE LET w == MemWrite(s.memory, s.index + j, s.registers[j])
         IN  IF ~IsOk(w.err) THEN Failed(s, w.err)
             ELSE StoreLoop([s EXCEPT !.memory = w.mem], x, j + 1)

\* a faulty FX55: it stores V0 up to but not including Vx
StoreBelowX(s, d) ==
    LET r == IF d.x = 0 THEN Done(s) ELSE StoreLoop(s, d.x - 1, 0)
    IN  IF ~IsOk(r.err) THEN r
        ELSE Done([r.state EXCEPT !.index = r.state.index + d.x + 1])

Store(s, d) ==
    LET r == StoreLoop(s, d.x, 0)
    IN  IF ~IsOk(r.err) THEN r
        ELSE Done([r.state EXCEPT !.index = r.state.index + d.x + 1])

\* the loop of Load over i in 0..=x: read, stop at the first Err
RECURSIVE LoadLoop(_, _, _)
LoadLoop(s, x, i) ==
    IF i > x THEN Done(s)
    ELSE LET v == MemRead(s.memory, s.index + i)
         IN  IF ~IsOk(v.err) THEN Failed(s, v.err)
             ELSE IF ~IsOk(RegisterFromIndex(i)) THEN Failed(s, RegisterFromIndex(i))
             ELSE LoadLoop([s EXCEPT !.registers = RegWrite(s.registers, i, v.val)], x, i + 1)

Load(s, d) ==
    LET r == LoadLoop(s, d.x, 0)
    IN  IF ~IsOk(r.err) THEN r
        ELSE Done([r.state EXCEPT !.index = r.state.index + d.x + 1])

\* (0..=15).find(|i| is_key_pressed(i)): the first pressed key, -1 for None
FindPressed(keypad) ==
    IF \E i \in 0 .. 15 : IsKeyPressed(keypad, i)
    THEN CHOOSE i \in 0 .. 15 :
            /\ IsKeyPressed(keypad, i)
            /\ \A j \in 0 .. 15 : j < i => ~IsKeyPressed(keypad, j)
    ELSE -1

\* a faulty FX0A: with no key pressed it goes on to the next instruction
GetKeyNoWait(s, d) ==
    LET pressed_key == FindPressed(s.keypad)
    IN  IF pressed_key # -1
        THEN IF ~IsOk(RegErr(d.x, d.x)) THEN Failed(s, RegErr(d.x, d.x))
             ELSE Done([s EXCEPT !.registers = RegWrite(s.registers, d.x, pressed_key),
                                 !.keypad = ReleaseKey(s.keypad, pressed_key)])
        ELSE Done(s)

\* a faulty FX0A: it reads the key and still rewinds the program counter
GetKeyNeverDone(s, d) ==
    LET pressed_key == FindPressed(s.keypad)
    IN  IF pressed_key # -1
        THEN IF ~IsOk(RegErr(d.x, d.x)) THEN Failed(s, RegErr(d.x, d.x))
             ELSE Done([s EXCEPT !.registers = RegWrite(s.registers, d.x, pressed_key),
                                 !.keypad = ReleaseKey(s.keypad, pressed_key),
                                 !.pc = s.pc - 2])
        ELSE Done([s EXCEPT !.pc = s.pc - 2])

GetKey(s, d) ==
    LET pressed_key == FindPressed(s.keypad)
    IN  IF pressed_key # -1
        THEN IF ~IsOk(RegErr(d.x, d.x)) THEN Failed(s, RegErr(d.x, d.x))
             ELSE Done([s EXCEPT !.registers = RegWrite(s.registers, d.x, pressed_key),
                                 !.keypad = ReleaseKey(s.keypad, pressed_key)])
        ELSE Done([s EXCEPT !.pc = s.pc - 2])

\* instruction.execute(&mut self.state): the dispatch on the instruction's type
Execute(name, s, d, rnd) ==
    CASE name = "ClearScreen" -> ClearScreen(s, d)
      [] name = "SubroutineReturn" -> SubroutineReturn(s, d)
      [] name = "Jump" -> Jump(s, d)
      [] name = "SubroutineCall" -> SubroutineCall(s, d)
      [] name = "JumpEqX" -> JumpEqX(s, d)
      [] name = "JumpNeqX" -> JumpNeqX(s, d)
      [] name = "JumpXEqY" -> JumpXEqY(s, d)
      [] name = "SetImmediate" -> SetImmediate(s, d)
      [] name = "Add" -> Add(s, d)
      [] name = "SetXToY" -> SetXToY(s, d)
      [] name = "BinaryOr" -> BinaryOr(s, d)
      [] name = "BinaryAnd" -> BinaryAnd(s, d)
      [] name = "LogicalXor" -> LogicalXor(s, d)
      [] name = "BinaryAdd" -> BinaryAdd(s, d)
      [] name = "SubtractYFromX" -> SubtractYFromX(s, d)
      [] name = "RightShift" -> RightShift(s, d)
      [] name = "SubtractXFromY" -> SubtractXFromY(s, d)
      [] name = "LeftShift" -> LeftShift(s, d)
      [] name = "JumpXNeqY" -> JumpXNeqY(s, d)
      [] name = "SetIndex" -> SetIndex(s, d)
      [] name = "JumpWithOffset" -> JumpWithOffset(s, d)
      [] name = "Random" -> Random(s, d, rnd)
      [] name = "Display" -> Display(s, d)
      [] name = "SkipIfKeyPressed" -> SkipIfKeyPressed(s, d)
      [] name = "SkipIfKeyNotPressed" -> SkipIfKeyNotPressed(s, d)
      [] name = "SetVxFromTimer" -> SetVxFromTimer(s, d)
      [] name = "SetDelayTimer" -> SetDelayTimer(s, d)
      [] name = "SetSoundTimer" -> SetSoundTimer(s, d)
      [] name = "AddToIndex" -> AddToIndex(s, d)
      [] name = "FontChar" -> FontChar(s, d)
      [] name = "BinaryCodedDecimal" -> BinaryCodedDecimal(s, d)
      [] name = "Store" -> Store(s, d)
      [] name = "Load" -> Load(s, d)
      [] name = "GetKey" -> GetKey(s, d)

(***************************************************************************)
(* Emulator (emulator.rs 182-305)                                          *)
(***************************************************************************)
\* a faulty fetch: a program counter past the end wraps around to address 0
FetchInstructionWrapping(s) ==
    [err |-> NoError,
     raw |-> MemByte(s.memory, s.pc % MEM_SIZE) * 256 + MemByte(s.memory, (s.pc + 1) % MEM_SIZE),
     state |-> [s EXCEPT !.pc = (s.pc + 2) % MEM_SIZE]]

\* Emulator::fetch_instruction up to the call of decode: the word read and the
\* state with pc advanced, or the error
FetchInstruction(s) ==
    IF s.pc + 1 >= MEM_SIZE
    THEN [err |-> Error("OutOfBounds", "Program counter out of bounds", s.pc),
          raw |-> 0, state |-> s]
    ELSE LET high_byte == MemRead(s.memory, s.pc)
             low_byte == MemRead(s.memory, s.pc + 1)
         IN  IF ~IsOk(high_byte.err) THEN [err |-> high_byte.err, raw |-> 0, state |-> s]
             ELSE IF ~IsOk(low_byte.err) THEN [err |-> low_byte.err, raw |-> 0, state |-> s]
             ELSE [err |-> NoError,
                   raw |-> BitOr(high_byte.val * 256, low_byte.val),
                   state |-> [s EXCEPT !.pc = s.pc + 2]]

\* instructions_per_frame of Emulator::run
InstructionsPerFrame(settings) == settings.ips \div settings.frame_rate

\* the bytes rand::random::<u8>() may return to the instruction.  CXNN keeps
\* rnd & nn only, so of the 256 bytes those with no bit outside nn stand for all
RandomBytes(name, d) ==
    IF name = "Random"
    THEN {b \in Byte : \A k \in 0 .. 7 : Bit(b, k) <= Bit(d.nn, k)}
    ELSE {0}

\* one fetch-decode-execute cycle, given what fetch_instruction returned (f: the
\* word, dec: what decode made of it), as a record of what it fetched, the state
\* execute received (pre), the state it left (post) and its Result
CycleOf(s, f, dec, rnd) ==
    IF ~IsOk(f.err)
    THEN [at |-> s.pc, raw |-> -1, name |-> "", d |-> DecodedInstructionNew(0),
          pre |-> s, post |-> s, err |-> f.err]
    ELSE IF ~IsOk(dec.err)
    THEN [at |-> s.pc, raw |-> f.raw, name |-> "", d |-> dec.d,
          pre |-> f.state, post |-> f.state, err |-> dec.err]
    ELSE LET ex == Execute(dec.name, f.state, dec.d, rnd)
         IN  [at |-> s.pc, raw |-> f.raw, name |-> dec.name, d |-> dec.d,
              pre |-> f.state, post |-> ex.state, err |-> ex.err]

\* the calls not yet returned from after cycle c, the most recent last: each
\* with the address the 2NNN was fetched at and the stack depth it found
OpenAfter(c) ==
    IF c.name = "SubroutineCall" /\ IsOk(c.err)
    THEN Append(c.open, [at |-> c.at, depth |-> Len(c.pre.stack)])
    ELSE IF c.name = "SubroutineReturn" /\ IsOk(c.err)
    THEN SubSeq(c.open, 1, Len(c.open) - 1)
    ELSE c.open

\* the history keeps the last two cycles, the latest first
Remember(h, c) ==
    IF h = << >> THEN << c @@ [open |-> << >>] >>
    ELSE << c @@ [open |-> OpenAfter(h[1])], h[1] >>

\* both locks free
NoHolder == [pressed_keys |-> "", escape_pressed |-> ""]

\* the listener thread blocked in listen(), between two events
ListenerWaiting == [at |-> "listen", type |-> "", key |-> ""]

\* the engine thread outside every keypad query
EngineElsewhere ==
    [at |-> "", i |-> 0, found |-> -1, escape |-> FALSE, next |-> FALSE,
     seen |-> {}, again |-> 0]

\* Emulator::new followed by nothing: run has not been called
Constructed(settings, rom) ==
    /\ state = Chip8StateNew(settings)
    /\ beeper = FALSE
    /\ raw_mode = FALSE
    /\ phase = "idle"
    /\ cycle = 0
    /\ result = NoError
    /\ rom_file = rom
    /\ frames = 0
    /\ events = 0
    /\ hist = << >>
    /\ mutex = NoHolder
    /\ listener = ListenerWaiting
    /\ engine = EngineElsewhere

\* a faulty run: the loop is entered without the program in memory
RunSetupNoLoad ==
    /\ phase = "idle"
    /\ raw_mode' = TRUE
    /\ phase' = "frame"
    /\ UNCHANGED <<state, result, beeper, cycle, rom_file,
                   mutex, listener, engine, frames, events, hist, arg, out>>

\* run, lines 243-260: raw mode on, terminal set up, ROM loaded
RunSetup ==
    /\ phase = "idle"
    /\ LET loaded == LoadRom(state.memory, rom_file)
       IN  /\ raw_mode' = TRUE
           /\ IF IsOk(loaded.err)
              THEN /\ state' = [state EXCEPT !.memory = loaded.mem]
                   /\ phase' = "frame"
                   /\ result' = result
              ELSE /\ state' = state
                   /\ phase' = "returned"
                   /\ result' = loaded.err
    /\ UNCHANGED <<beeper, cycle, rom_file,
                   mutex, listener, engine, frames, events, hist, arg, out>>

\* run, lines 262-282: the stop check, then the timers and the tone
BeginFrame ==
    /\ phase = "frame"
    /\ IF IsEscapePressed(state.keypad)
       THEN /\ phase' = "returned"
            /\ raw_mode' = FALSE
            /\ result' = NoError
            /\ UNCHANGED <<state, beeper, cycle, frames>>
       ELSE /\ frames < MaxFrames
            /\ state' = [state EXCEPT
                            !.delay_timer = SaturatingSub8(state.delay_timer, 1),
                            !.sound_timer = SaturatingSub8(state.sound_timer, 1)]
            /\ beeper' = (state'.sound_timer # 0)
            /\ cycle' = 0
            /\ frames' = frames + 1
            /\ phase' = "cycle"
            /\ UNCHANGED <<raw_mode, result>>
    /\ UNCHANGED <<rom_file, mutex, listener, engine, events, hist, arg, out>>

\* a faulty loop body: a cycle that fails is passed over and the loop goes on
CycleSkipping ==
    /\ phase = "cycle"
    /\ cycle <= InstructionsPerFrame(state.settings)
    /\ LET f == FetchInstruction(state)
           dec == Decode(f.raw)
       IN  \E rnd \in RandomBytes(dec.name, dec.d) :
              LET c == CycleOf(state, f, dec, rnd)
              IN  /\ state' = c.post
                  /\ hist' = Remember(hist, c)
                  /\ cycle' = cycle + 1
                  /\ UNCHANGED <<phase, result>>
    /\ UNCHANGED <<beeper, raw_mode, rom_file,
                   mutex, listener, engine, frames, events, arg, out>>

\* a faulty loop body: the stop signal is looked at before every cycle
CycleStopping ==
    /\ phase = "cycle"
    /\ cycle <= InstructionsPerFrame(state.settings)
    /\ IF IsEscapePressed(state.keypad)
       THEN /\ phase' = "returned"
            /\ raw_mode' = FALSE
            /\ result' = NoError
            /\ UNCHANGED <<state, hist, cycle>>
       ELSE /\ LET f == FetchInstruction(state)
                   dec == Decode(f.raw)
               IN  \E rnd \in RandomBytes(dec.name, dec.d) :
                      LET c == CycleOf(state, f, dec, rnd)
                      IN  /\ state' = c.post
                          /\ hist' = Remember(hist, c)
                          /\ IF IsOk(c.err)
                             THEN /\ cycle' = cycle + 1
                                  /\ UNCHANGED <<phase, result>>
                             ELSE /\ phase' = "returned"
                                  /\ result' = c.err
                                  /\ cycle' = cycle
            /\ UNCHANGED raw_mode
    /\ UNCHANGED <<beeper, rom_file,
                   mutex, listener, engine, frames, events, arg, out>>

\* run, lines 284-291: one iteration of  for _ in 0..=instructions_per_frame
Cycle ==
    /\ phase = "cycle"
    /\ cycle <= InstructionsPerFrame(state.settings)
    /\ LET f == FetchInstruction(state)
           dec == Decode(f.raw)
       IN  \E rnd \in RandomBytes(dec.name, dec.d) :
              LET c == CycleOf(state, f, dec, rnd)
              IN  /\ state' = c.post
                  /\ hist' = Remember(hist, c)
                  /\ IF IsOk(c.err)
                     THEN /\ cycle' = cycle + 1
                          /\ UNCHANGED <<phase, result>>
                     ELSE /\ phase' = "returned"
                          /\ result' = c.err
                          /\ cycle' = cycle
    /\ UNCHANGED <<beeper, raw_mode, rom_file,
                   mutex, listener, engine, frames, events, arg, out>>

\* run, lines 293-300: the frame is drawn, the loop sleeps and starts over
EndFrame ==
    /\ phase = "cycle"
    /\ cycle > InstructionsPerFrame(state.settings)
    /\ phase' = "frame"
    /\ UNCHANGED <<state, beeper, raw_mode, cycle, result, rom_file,
                   mutex, listener, engine, frames,
                   events, hist, arg, out>>

\* the host keys the model's keyboard sends
HostKeys == {"KeyX", "Num1", "Num2", "KeyV", "Escape", "KeyP"}

\* the listener closure on EventType::KeyPress(key) (state.rs 391-397)
KeyPress ==
    /\ events < MaxEvents
    /\ phase # "returned"
    /\ \E key \in HostKeys :
          state' = IF key = "Escape"
                   THEN [state EXCEPT !.keypad.escape_pressed = TRUE]
                   ELSE IF KeyFromRdev(key) # -1
                   THEN [state EXCEPT !.keypad.pressed_keys = @ \cup {KeyFromRdev(key)}]
                   ELSE state
    /\ events' = events + 1
    /\ UNCHANGED <<beeper, raw_mode, phase, cycle, result, rom_file,
                   mutex, listener, engine, frames,
                   hist, arg, out>>

\* the listener closure on EventType::KeyRelease(key) (state.rs 398-404)
KeyRelease ==
    /\ events < MaxEvents
    /\ phase # "returned"
    /\ \E key \in HostKeys :
          state' = IF key = "Escape"
                   THEN [state EXCEPT !.keypad.escape_pressed = FALSE]
                   ELSE IF KeyFromRdev(key) # -1
                   THEN [state EXCEPT !.keypad.pressed_keys = @ \ {KeyFromRdev(key)}]
                   ELSE state
    /\ events' = events + 1
    /\ UNCHANGED <<beeper, raw_mode, phase, cycle, result, rom_file,
                   mutex, listener, engine, frames,
                   hist, arg, out>>

(***************************************************************************)
(* Programs.  A ROM file is a sequence of bytes; the programs below are    *)
(* written as big-endian 16-bit words followed by data bytes.              *)
(***************************************************************************)
\* the bytes of a sequence of instruction words
WordBytes(words) ==
    [k \in 1 .. 2 * Len(words) |->
        IF k % 2 = 1 THEN words[(k + 1) \div 2] \div 256 ELSE words[k \div 2] % 256]

DefaultSettings ==
    [frame_rate |-> DEFAULT_FRAME_RATE, ips |-> DEFAULT_INSTRUCTIONS_PER_SECOND]

\* one instruction per frame more than the rate asks for, two cycles a frame
SlowSettings == [frame_rate |-> DEFAULT_FRAME_RATE, ips |-> DEFAULT_FRAME_RATE]

SpriteRows ==
    << \hFF, \h81, \hC3, \h01, \h80, \hFF, \h18, \h7E,
       \h01, \h80, \h55, \hAA, \h0F, \hF0, \h3C >>

\* sprite of n rows drawn once at a random origin, then a font glyph drawn
\* twice over it at a random nearby origin
DrawRomA(n) ==
    WordBytes(<< \hC045,            \* 200: V0 := rnd & 0x45
                 \hC121,            \* 202: V1 := rnd & 0x21
                 \hA214,            \* 204: I := 0x214
                 \hD010 + n,        \* 206: draw n rows at (V0, V1)
                 \hC203,            \* 208: V2 := rnd & 0x03
                 \hC309,            \* 20A: V3 := rnd & 0x09
                 \hF329,            \* 20C: I := glyph of V3
                 \hD215,            \* 20E: draw the glyph at (V2, V1)
                 \hD215,            \* 210: and again
                 \h0000 >>)         \* 212: not an instruction
    \o SpriteRows

\* sprite of n rows drawn twice around the bottom right corner
DrawRomB(n) ==
    WordBytes(<< \hC007,            \* 200: V0 := rnd & 0x07
                 \h703A,            \* 202: V0 += 58
                 \hC103,            \* 204: V1 := rnd & 0x03
                 \h711E,            \* 206: V1 += 30
                 \hA210,            \* 208: I := 0x210
                 \hD010 + n,        \* 20A: draw n rows at (V0, V1)
                 \hD010 + n,        \* 20C: and again
                 \h0000 >>)         \* 20E: not an instruction
    \o SpriteRows

\* the same over a glyph already drawn in the corner
DrawRomE(n) ==
    WordBytes(<< \hF229,            \* 200: I := glyph of V2 (0)
                 \h633C,            \* 202: V3 := 60
                 \h641D,            \* 204: V4 := 29
                 \hD345,            \* 206: draw the glyph at (60, 29)
                 \hC007,            \* 208: V0 := rnd & 0x07
                 \h703A,            \* 20A: V0 += 58
                 \hC103,            \* 20C: V1 := rnd & 0x03
                 \h711E,            \* 20E: V1 += 30
                 \hA218,            \* 210: I := 0x218
                 \hD010 + n,        \* 212: draw n rows at (V0, V1)
                 \hD010 + n,        \* 214: and again
                 \h0000 >>)         \* 216: not an instruction
    \o SpriteRows

\* the flag register as both coordinates; then a sprite that leaves memory
DrawRomC ==
    WordBytes(<< \h6F03,            \* 200: VF := 3
                 \hA20E,            \* 202: I := 0x20E
                 \hDFF2,            \* 204: draw 2 rows at (VF, VF)
                 \hDFF2,            \* 206: and again
                 \h00E0,            \* 208: clear
                 \hAFFE,            \* 20A: I := 0xFFE
                 \hD003 >>)         \* 20C: draw 3 rows from 0xFFE
    \o << \hFF, \hFF >>

DrawRoms ==
    {DrawRomA(n) : n \in {1, 3}}
        \cup {DrawRomB(n) : n \in {0, 1, 2, 4, 15}}
        \cup {DrawRomE(n) : n \in {1, 4, 15}}
        \cup {DrawRomC}

\* two blocking key reads, each followed by a query of the key it read
KeyRom ==
    WordBytes(<< \h60AA,            \* 200: V0 := 0xAA
                 \hF00A,            \* 202: V0 := key, waiting for one
                 \hE09E,            \* 204: skip if key V0 is pressed
                 \hF10A,            \* 206: V1 := key, waiting for one
                 \hE1A1,            \* 208: skip if key V1 is not pressed
                 \h0000 >>)         \* 20A: not an instruction

KeyRoms == {KeyRom}

\* nested and consecutive calls, then a return with nothing to return to
FlowRomA ==
    WordBytes(<< \hC001,            \* 200: V0 := rnd & 1
                 \h2208,            \* 202: call 208
                 \h220C,            \* 204: call 20C
                 \h00EE,            \* 206: return, the stack is empty
                 \h220C,            \* 208: call 20C
                 \h00EE,            \* 20A: return
                 \h3001,            \* 20C: skip if V0 = 1
                 \h00EE,            \* 20E: return
                 \h2212,            \* 210: call 212
                 \h00EE >>)         \* 212: return (to 212, then to the caller)

\* a subroutine that calls itself while the random byte is not zero
FlowRomB ==
    WordBytes(<< \hC003,            \* 200: V0 := rnd & 3
                 \h3000,            \* 202: skip if V0 = 0
                 \h2200,            \* 204: call 200
                 \h00EE >>)         \* 206: return

\* a return as the first instruction
FlowRomC == WordBytes(<< \h00EE >>)

\* registers, timers and index set up, then one instruction that may fail
ErrRom(last) ==
    WordBytes(<< \hC00F,            \* 200: V0 := rnd & 0x0F
                 \h6122,            \* 202: V1 := 0x22
                 \h62EA,            \* 204: V2 := 234
                 \h6F01,            \* 206: VF := 1
                 \hF215,            \* 208: delay timer := 234
                 \hF118,            \* 20A: sound timer := 0x22
                 \hAFFE,            \* 20C: I := 0xFFE
                 last >>)           \* 20E

\* words outside the instruction set; a return with no call; a jump to the
\* last byte of memory; FX55, FX65, FX33 and DXYN reaching past memory; key
\* queries on a value that is no key
ErrWords ==
    {\hFFFF, \h0000, \h00EF, \h8128, \h812F, \hE19F, \hE1A0, \hF1FF, \hF100,
     \h00EE, \h1FFF, \hF255, \hF265, \hF233, \hD123, \hE29E, \hE2A1}

ErrRoms == {ErrRom(w) : w \in ErrWords}

\* both timers set from random bytes and the delay timer read, over and over
TimerRom ==
    WordBytes(<< \hC003,            \* 200: V0 := rnd & 3
                 \hF015,            \* 202: delay timer := V0
                 \hC103,            \* 204: V1 := rnd & 3
                 \hF118,            \* 206: sound timer := V1
                 \hF207,            \* 208: V2 := delay timer
                 \h1200 >>)         \* 20A: jump to 200

\* the delay timer set once to 3 and read from then on
CountdownRom ==
    WordBytes(<< \h6003,            \* 200: V0 := 3
                 \hF015,            \* 202: delay timer := V0
                 \hF018,            \* 204: sound timer := V0
                 \hF207,            \* 206: V2 := delay timer
                 \h1206 >>)         \* 208: jump to 206

TimerRoms == {TimerRom, CountdownRom}

FlowRoms == {FlowRomA, FlowRomB, FlowRomC}

(***************************************************************************)
(* Specifications                                                          *)
(***************************************************************************)
NoOutput == [fn |-> "", val |-> 0]

NoFunction == arg = 0 /\ out = NoOutput

\* the machine while the host keyboard is idle
QuietNext == RunSetup \/ BeginFrame \/ Cycle \/ EndFrame

\* the machine and the listener thread
Next == QuietNext \/ KeyPress \/ KeyRelease

\* the key-reading programs, with the keyboard in use
Init ==
    /\ \E rom \in KeyRoms, settings \in {DefaultSettings, SlowSettings} :
          Constructed(settings, rom)
    /\ NoFunction

Spec == Init /\ [][Next]_vars

\* the call and return programs
FlowInit ==
    /\ \E rom \in FlowRoms, settings \in {DefaultSettings, SlowSettings} :
          Constructed(settings, rom)
    /\ NoFunction

SpecFlow == FlowInit /\ [][QuietNext]_vars

\* the programs that end in a failing cycle
ErrInit ==
    /\ \E rom \in ErrRoms, settings \in {DefaultSettings, SlowSettings} :
          Constructed(settings, rom)
    /\ NoFunction

SpecErr == ErrInit /\ [][QuietNext]_vars

\* the programs that set and read the timers
TimerInit ==
    /\ \E rom \in TimerRoms, settings \in {DefaultSettings, SlowSettings} :
          Constructed(settings, rom)
    /\ NoFunction

SpecTimer == TimerInit /\ [][QuietNext]_vars

\* the state an 8XY_ instruction is executed in: Vx, Vy and VF as given (Vx
\* where the registers coincide, then Vy), every other register a value of
\* its own
AluState(a) ==
    LET x == (a.raw \div 256) % 16
        y == (a.raw \div 16) % 16
        fresh == Chip8StateNew(DefaultSettings)
    IN  [fresh EXCEPT
            !.pc = PC_START_ADDR + 2,
            !.registers = [r \in 0 .. NUM_REGISTERS - 1 |->
                             IF r = x THEN a.vx
                             ELSE IF r = y THEN a.vy
                             ELSE IF r = VF THEN a.vf
                             ELSE 100 + r]]

\* values at and around the ends of the byte range
EdgeBytes == {0, 1, 2, 127, 128, 129, 254, 255}

\* 8XYn for the last digits ns: V1 and V2 over all bytes; x or y the flag
\* register, and x = y, over the edge values
AluInputs(ns) ==
    {[raw |-> \h8120 + n, vx |-> vx, vy |-> vy, vf |-> 1] :
        n \in ns, vx \in Byte, vy \in Byte}
    \cup {[raw |-> w + n, vx |-> vx, vy |-> vy, vf |-> vf] :
            w \in {\h8120, \h8F20, \h81F0}, n \in ns,
            vx \in EdgeBytes, vy \in EdgeBytes, vf \in {0, 1, 255}}
    \cup {[raw |-> w + n, vx |-> v, vy |-> v, vf |-> vf] :
            w \in {\h8220, \h8FF0}, n \in ns, v \in EdgeBytes, vf \in {0, 1, 255}}

AluInit(ns) ==
    /\ Constructed(DefaultSettings, << >>)
    /\ arg \in AluInputs(ns)
    /\ out = NoOutput

\* decode the word and execute the instruction in the state the input describes
ExecuteWord ==
    /\ out.fn = ""
    /\ LET dec == Decode(arg.raw)
       IN  out' = [fn |-> "execute", val |-> Execute(dec.name, AluState(arg), dec.d, 0)]
    /\ UNCHANGED <<state, beeper, raw_mode, phase, cycle, result, rom_file,
                   mutex, listener, engine,
                   frames, events, hist, arg>>

AddInit == AluInit({4})

SpecAdd == AddInit /\ [][ExecuteWord]_vars

SubInit == AluInit({5, 7})

SpecSub == SubInit /\ [][ExecuteWord]_vars

ShiftInit == AluInit({6, 14})

SpecShift == ShiftInit /\ [][ExecuteWord]_vars

LogicInit == AluInit({1, 2, 3})

SpecLogic == LogicInit /\ [][ExecuteWord]_vars

\* decode applied to a 16-bit word
DecodeInit ==
    /\ Constructed(DefaultSettings, << >>)
    /\ arg \in 0 .. 65535
    /\ out = NoOutput

DecodeWord ==
    /\ out.fn = ""
    /\ out' = [fn |-> "decode", val |-> Decode(arg)]
    /\ UNCHANGED <<state, beeper, raw_mode, phase, cycle, result, rom_file,
                   mutex, listener, engine,
                   frames, events, hist, arg>>

SpecDecode == DecodeInit /\ [][DecodeWord]_vars

\* the drawing programs
DrawInit ==
    /\ \E rom \in DrawRoms, settings \in {DefaultSettings, SlowSettings} :
          Constructed(settings, rom)
    /\ NoFunction

SpecDraw == DrawInit /\ [][QuietNext]_vars

(***************************************************************************)
(* Notions the properties share                                            *)
(***************************************************************************)
\* the latest cycle and the one before it
Latest == hist[1]

Before == hist[2]

\* the cycle executed DXYN and it returned Ok
Drew(c) == c.name = "Display" /\ IsOk(c.err)

OriginX(c) == c.pre.registers[c.d.x] % 64

OriginY(c) == c.pre.registers[c.d.y] % 32

\* the (row, bit) pairs of the sprite of cycle c that lie on the screen
OnScreen(c) ==
    {rb \in (0 .. c.d.n - 1) \X (0 .. 7) :
        OriginX(c) + rb[2] < 64 /\ OriginY(c) + rb[1] < 32}

\* bit b (0 the most significant) of row r of the sprite of cycle c
SpriteBit(c, rb) == Bit(MemByte(c.pre.memory, c.pre.index + rb[1]), 7 - rb[2])

PixelOf(c, rb) == (OriginY(c) + rb[1]) * 64 + OriginX(c) + rb[2]

\* the pixels under the set bits of the sprite that lie on the screen
SpriteCells(c) == {PixelOf(c, rb) : rb \in {q \in OnScreen(c) : SpriteBit(c, q) = 1}}

\* the on-screen sprite position handled last (highest row, then highest bit)
LastOnScreen(c) ==
    CHOOSE rb \in OnScreen(c) :
        \A q \in OnScreen(c) : 8 * q[1] + q[2] <= 8 * rb[1] + rb[2]

Changed(a, b) == (a \ b) \cup (b \ a)

\* two consecutive cycles executed the same DXYN with the same Vx, Vy, index
\* register and sprite bytes
SameDrawTwice ==
    /\ Len(hist) = 2
    /\ Drew(Latest) /\ Drew(Before)
    /\ Latest.raw = Before.raw
    /\ Latest.pre.registers[Latest.d.x] = Before.pre.registers[Before.d.x]
    /\ Latest.pre.registers[Latest.d.y] = Before.pre.registers[Before.d.y]
    /\ Latest.pre.index = Before.pre.index
    /\ ReadSprite(Latest.pre.memory, Latest.pre.index, Latest.d.n)
         = ReadSprite(Before.pre.memory, Before.pre.index, Before.d.n)

(***************************************************************************)
(* Properties                                                              *)
(***************************************************************************)
\* C1: after DXYN, VF is 1 iff some pixel went from set to unset during the
\* draw, whichever sprite bit did it; otherwise VF is 0.
C1_FlagIffAnyPixelErased ==
    (hist # << >> /\ Drew(Latest)) =>
        ((Latest.post.registers[VF] = 1)
            <=> (\E p \in Latest.pre.display : p \notin Latest.post.display))

\* C2: the same DXYN executed twice in a row with the same Vx, Vy, index and
\* sprite bytes leaves the framebuffer as it was before the first draw.
C2_DoubleDrawRestores ==
    SameDrawTwice => Latest.post.display = Before.pre.display

C2_Witness ==
    /\ SameDrawTwice
    /\ Latest.d.n > 1
    /\ OriginX(Latest) + 7 >= 64
    /\ OriginY(Latest) + Latest.d.n > 32
    /\ Before.pre.display # {}
    /\ Latest.pre.display # Before.pre.display
    /\ Latest.post.display = Before.pre.display

C4_DrawTogglesClippedSprite ==
    (hist # << >> /\ Drew(Latest)) =>
        Changed(Latest.post.display, Latest.pre.display) = SpriteCells(Latest)

C4_Witness ==
    /\ hist # << >> /\ Drew(Latest)
    /\ Latest.pre.registers[Latest.d.x] >= 64
    /\ OriginY(Latest) + Latest.d.n > 32
    /\ \E rb \in ((0 .. Latest.d.n - 1) \X (0 .. 7)) \ OnScreen(Latest) :
          SpriteBit(Latest, rb) = 1
    /\ Changed(Latest.post.display, Latest.pre.display) # {}

\* the cycle executed FX0A
ReadKey(c) == c.name = "GetKey"

\* the state execute left differs from the one it received in pc at most
SameButPc(c) == [c.post EXCEPT !.pc = c.pre.pc] = c.pre

\* C5: FX0A executed while no key is pressed succeeds, leaves registers,
\* memory, index, stack, timers, framebuffer and keypad as they were and puts
\* the program counter back on the FX0A itself (post-fetch counter minus 2).
C5_NoKeyOnlyRewinds ==
    (hist # << >> /\ ReadKey(Latest) /\ Latest.pre.keypad.pressed_keys = {}) =>
        /\ IsOk(Latest.err)
        /\ SameButPc(Latest)
        /\ Latest.post.pc = Latest.at
        /\ Latest.post.pc = Latest.pre.pc - 2

C5_Witness ==
    /\ hist # << >> /\ ReadKey(Latest)
    /\ Latest.pre.keypad.pressed_keys = {}
    /\ Latest.pre.keypad.escape_pressed
    /\ Latest.pre.registers[Latest.d.x] = 170
    /\ Latest.pre.delay_timer = 0
    /\ Latest.at = 514
    /\ Latest.post.pc = 514
    /\ phase = "cycle"

\* the least of a non-empty set of key indices
Lowest(keys) == CHOOSE k \in keys : \A j \in keys : k <= j

\* FX0A executed while some key is pressed stores the lowest pressed index
\* in Vx, releases that key and no other, and leaves the program counter on
\* the following instruction; a query of that key made next, with no key event
\* in between, finds it not pressed.
C6_LowestKeyReadOnce ==
    (hist # << >> /\ ReadKey(Latest) /\ Latest.pre.keypad.pressed_keys # {}) =>
        LET k == Lowest(Latest.pre.keypad.pressed_keys)
        IN  /\ IsOk(Latest.err)
            /\ Latest.post.registers[Latest.d.x] = k
            /\ Latest.post.keypad.pressed_keys = Latest.pre.keypad.pressed_keys \ {k}
            /\ Latest.post.keypad.escape_pressed = Latest.pre.keypad.escape_pressed
            /\ Latest.post.pc = Latest.at + 2
            /\ ~IsKeyPressed(Latest.post.keypad, k)

\* the query that follows: EX9E on the key FX0A just read, with no key
\* event in between, does not skip.
C6_NextQueryNotPressed ==
    (/\ Len(hist) = 2
     /\ ReadKey(Before) /\ Before.pre.keypad.pressed_keys # {}
     /\ Latest.pre.keypad = Before.post.keypad
     /\ Latest.name = "SkipIfKeyPressed"
     /\ Latest.pre.registers[Latest.d.x] = Before.post.registers[Before.d.x]) =>
        Latest.post.pc = Latest.at + 2

\* C6: FX0A executed while some key is pressed stores the lowest pressed index
\* in Vx, releases exactly that key and leaves the program counter on the
\* following instruction; with no key event in between, the next query of that
\* key finds it not pressed.
C6_KeyReadOnce == C6_LowestKeyReadOnce /\ C6_NextQueryNotPressed

C6_Witness ==
    /\ Len(hist) = 2
    /\ ReadKey(Before)
    /\ Cardinality(Before.pre.keypad.pressed_keys) = 2
    /\ Before.post.registers[Before.d.x] = 1
    /\ Before.post.keypad.pressed_keys = {15}
    /\ Latest.pre.keypad = Before.post.keypad
    /\ Latest.name = "SkipIfKeyPressed"
    /\ Latest.pre.registers[Latest.d.x] = 1
    /\ Latest.post.pc = Latest.at + 2

\* C7: after an FX0A that found no key pressed, the next cycle executes the same
\* FX0A at the same address with the registers untouched, and neither raises
\* an error; an FX0A that finds a key pressed completes in that cycle and the
\* cycle after it fetches the next instruction.
C7_WaitsThenCompletes ==
    /\ (Len(hist) = 2 /\ ReadKey(Before) /\ Before.pre.keypad.pressed_keys = {}) =>
          /\ IsOk(Before.err)
          /\ Latest.at = Before.at
          /\ Latest.raw = Before.raw
          /\ ReadKey(Latest)
          /\ Latest.pre.registers = Before.pre.registers
          /\ Latest.pre.keypad.pressed_keys = {} => IsOk(Latest.err)
    /\ (hist # << >> /\ ReadKey(Latest) /\ Latest.pre.keypad.pressed_keys # {}) =>
          /\ IsOk(Latest.err)
          /\ Latest.post.pc = Latest.at + 2
    /\ (Len(hist) = 2 /\ ReadKey(Before) /\ Before.pre.keypad.pressed_keys # {}) =>
          Latest.at = Before.at + 2

\* the first FX0A of the program, reached in the second cycle, still waits in
\* the sixth frame and completes there on a key pressed in that frame
C7_Witness ==
    /\ Len(hist) = 2
    /\ frames >= 6
    /\ ReadKey(Before) /\ Before.at = 514
    /\ Before.pre.keypad.pressed_keys = {}
    /\ Before.pre.registers[0] = 170
    /\ ReadKey(Latest) /\ Latest.at = 514
    /\ Latest.pre.keypad.pressed_keys # {}
    /\ Latest.post.pc = 516
    /\ events = 1

\* C8: a 00EE that succeeds returns to the address after the most recent 2NNN
\* not yet returned from (fetched at a: the program counter becomes a + 2) and
\* leaves the stack as deep as that 2NNN found it; the calls not yet returned
\* from are as many as the stack is deep.
C8_ReturnMatchesCall ==
    hist # << >> =>
        /\ Len(Latest.open) = Len(Latest.pre.stack)
        /\ (Latest.name = "SubroutineReturn" /\ IsOk(Latest.err)) =>
              /\ Latest.open # << >>
              /\ Latest.post.pc = Latest.open[Len(Latest.open)].at + 2
              /\ Len(Latest.post.stack) = Latest.open[Len(Latest.open)].depth

\* two returns in a row out of nested calls made at different addresses
C8_Witness ==
    /\ Len(hist) = 2
    /\ Before.name = "SubroutineReturn" /\ IsOk(Before.err)
    /\ Latest.name = "SubroutineReturn" /\ IsOk(Latest.err)
    /\ Len(Before.open) = 2
    /\ Before.open[1].at # Before.open[2].at
    /\ Before.post.pc = Before.open[2].at + 2
    /\ Latest.post.pc = Before.open[1].at + 2
    /\ Latest.post.stack = << >>

\* C9: 00EE executed on an empty stack fails with the stack-underflow error,
\* leaves the program counter where the fetch put it and the stack empty, and
\* run returns that error.
C9_ReturnOnEmptyStackFails ==
    (hist # << >> /\ Latest.name = "SubroutineReturn" /\ Latest.pre.stack = << >>) =>
        /\ Latest.err.kind = "StackUnderflow"
        /\ Latest.post.pc = Latest.pre.pc
        /\ Latest.post.stack = << >>
        /\ Latest.post = Latest.pre
        /\ phase = "returned" /\ result = Latest.err

\* the underflow after calls and returns that emptied the stack again
C9_Witness ==
    /\ Len(hist) = 2
    /\ Latest.name = "SubroutineReturn" /\ Latest.pre.stack = << >>
    /\ Before.name = "SubroutineReturn" /\ Before.pre.stack # << >>
    /\ Latest.err.kind = "StackUnderflow"
    /\ state.pc = Latest.at + 2

\* the dispatch table of the CHIP-8 instruction set: the words that are
\* instructions, by the hexadecimal digits of the word
Digit(w, k) == BitAnd(w \div Pow2(4 * k), 15)

InTable(w) ==
    LET top == Digit(w, 3)
    IN  \/ top \in {1, 2, 3, 4, 5, 6, 7, 9, 10, 11, 12, 13}
        \/ top = 0 /\ BitAnd(w, \h0FFF) \in {\h0E0, \h0EE}
        \/ top = 8 /\ Digit(w, 0) \in (0 .. 7) \cup {\hE}
        \/ top = 14 /\ BitAnd(w, \hFF) \in {\h9E, \hA1}
        \/ top = 15 /\ BitAnd(w, \hFF) \in
                          {\h07, \h0A, \h15, \h18, \h1E, \h29, \h33, \h55, \h65}

TableOp(w) ==
    LET top == Digit(w, 3)
        low == BitAnd(w, \hFF)
    IN  CASE w = \h00E0 -> "ClearScreen"
          [] w = \h00EE -> "SubroutineReturn"
          [] top = 1 -> "Jump"
          [] top = 2 -> "SubroutineCall"
          [] top = 3 -> "JumpEqX"
          [] top = 4 -> "JumpNeqX"
          [] top = 5 -> "JumpXEqY"
          [] top = 6 -> "SetImmediate"
          [] top = 7 -> "Add"
          [] top = 8 ->
                <<"SetXToY", "BinaryOr", "BinaryAnd", "LogicalXor", "BinaryAdd",
                  "SubtractYFromX", "RightShift", "SubtractXFromY", "", "", "",
                  "", "", "", "LeftShift", "">>[Digit(w, 0) + 1]
          [] top = 9 -> "JumpXNeqY"
          [] top = 10 -> "SetIndex"
          [] top = 11 -> "JumpWithOffset"
          [] top = 12 -> "Random"
          [] top = 13 -> "Display"
          [] top = 14 /\ low = \h9E -> "SkipIfKeyPressed"
          [] top = 14 /\ low = \hA1 -> "SkipIfKeyNotPressed"
          [] top = 15 /\ low = \h07 -> "SetVxFromTimer"
          [] top = 15 /\ low = \h0A -> "GetKey"
          [] top = 15 /\ low = \h15 -> "SetDelayTimer"
          [] top = 15 /\ low = \h18 -> "SetSoundTimer"
          [] top = 15 /\ low = \h1E -> "AddToIndex"
          [] top = 15 /\ low = \h29 -> "FontChar"
          [] top = 15 /\ low = \h33 -> "BinaryCodedDecimal"
          [] top = 15 /\ low = \h55 -> "Store"
          [] top = 15 /\ low = \h65 -> "Load"
          [] OTHER -> ""

\* C10: decode(w) succeeds exactly for the words of the dispatch table, gives
\* the operation the table names with x, y, n, nn, nnn the bit fields of w, and
\* fails with the unsupported-opcode error for every other word.
C10_DecodeFollowsTable ==
    out.fn = "decode" =>
        LET w == arg
            r == out.val
        IN  /\ IsOk(r.err) <=> InTable(w)
            /\ IsOk(r.err) =>
                  /\ r.name = TableOp(w)
                  /\ r.d.x = Digit(w, 2)
                  /\ r.d.y = Digit(w, 1)
                  /\ r.d.n = Digit(w, 0)
                  /\ r.d.nn = BitAnd(w, \hFF)
                  /\ r.d.nnn = BitAnd(w, \h0FFF)
            /\ ~IsOk(r.err) => r.err.kind = "UnsupportedOpcode"

\* 0x8ABE is a left shift of VA by VB; decoded
C10_Witness ==
    /\ out.fn = "decode"
    /\ arg = \h8ABE
    /\ IsOk(out.val.err)
    /\ out.val.name = "LeftShift"
    /\ out.val.d.x = 10 /\ out.val.d.y = 11

\* the cycle fetched a word and decode refused it
Refused(c) == c.raw # -1 /\ c.name = ""

\* C11: a fetched word outside the dispatch table (0xFFFF among them) makes the
\* cycle fail with the unsupported-opcode error carrying the whole 16-bit word;
\* nothing is executed in its place and run returns that error.
C11_UnknownWordEndsRun ==
    hist # << >> =>
        /\ (Latest.raw # -1 /\ ~InTable(Latest.raw)) =>
              /\ Latest.err.kind = "UnsupportedOpcode"
              /\ Latest.err.arg = Latest.raw
              /\ Latest.post = Latest.pre
              /\ state = Latest.post
              /\ phase = "returned" /\ result = Latest.err
        /\ (Latest.raw # -1 /\ InTable(Latest.raw)) => ~Refused(Latest)

C11_Witness ==
    /\ hist # << >>
    /\ Latest.raw = \hFFFF
    /\ Latest.at = 526
    /\ result.kind = "UnsupportedOpcode" /\ result.arg = 65535
    /\ phase = "returned"
    /\ state.pc = 528

\* what an instruction may not touch when it fails
Untouched(c) ==
    /\ c.post.registers = c.pre.registers
    /\ c.post.memory = c.pre.memory
    /\ c.post.index = c.pre.index
    /\ c.post.stack = c.pre.stack
    /\ c.post.delay_timer = c.pre.delay_timer
    /\ c.post.sound_timer = c.pre.sound_timer
    /\ c.post.display = c.pre.display

\* C12: an instruction whose execution fails leaves every register, memory
\* byte, the index register, the call stack, both timers and the framebuffer
\* as they were when it began.
C12_FailureChangesNothing ==
    (hist # << >> /\ ~IsOk(Latest.err)) => Untouched(Latest)

\* C13: once a cycle has failed, whatever the error, run has returned that
\* error, no instruction was executed after the failing one and the state is as
\* that cycle left it (no later instruction, no later timer decrement).
C13_FailureEndsRun ==
    /\ (hist # << >> /\ ~IsOk(Latest.err)) =>
          /\ phase = "returned"
          /\ result = Latest.err
          /\ state = Latest.post
    /\ Len(hist) = 2 => IsOk(Before.err)
    /\ (phase = "returned" /\ ~IsOk(result) /\ hist # << >>) => result = Latest.err

\* a key query on a value that is no key ended the run, timers still running
C13_Witness ==
    /\ hist # << >>
    /\ Latest.err.kind = "InvalidKey"
    /\ phase = "returned"
    /\ result = Latest.err
    /\ state.delay_timer = 233 /\ state.sound_timer = 33
    /\ frames >= 2

\* a frame body has just ended without an error
FrameDone == phase = "frame" /\ frames > 0

\* C14: a frame in which no error occurs executes exactly
\* instructions_per_second / frame_rate cycles.
C14_CyclesPerFrame ==
    FrameDone => cycle = state.settings.ips \div state.settings.frame_rate

\* a timer one frame later: one less, or still zero
TimerAfterFrame(v) == IF v > 0 THEN v - 1 ELSE 0

\* C15: a step that begins a frame takes 1 from each non-zero timer, leaves a
\* zero timer at zero, and comes before any cycle of that frame; every other
\* step that changes the delay timer is an FX15 (which leaves the sound timer
\* alone) and every other step that changes the sound timer is an FX18 (which
\* leaves the delay timer alone).
C15_TimersStepOncePerFrame ==
    [][/\ (frames' # frames) =>
             /\ frames' = frames + 1
             /\ state'.delay_timer = TimerAfterFrame(state.delay_timer)
             /\ state'.sound_timer = TimerAfterFrame(state.sound_timer)
             /\ phase' = "cycle" /\ cycle' = 0 /\ hist' = hist
       /\ (frames' = frames /\ state'.delay_timer # state.delay_timer) =>
             /\ hist' # hist
             /\ hist'[1].name = "SetDelayTimer"
             /\ state'.delay_timer = state.registers[hist'[1].d.x]
             /\ state'.sound_timer = state.sound_timer
       /\ (frames' = frames /\ state'.sound_timer # state.sound_timer) =>
             /\ hist' # hist
             /\ hist'[1].name = "SetSoundTimer"
             /\ state'.sound_timer = state.registers[hist'[1].d.x]
             /\ state'.delay_timer = state.delay_timer
       /\ (phase = "cycle" /\ phase' = "frame") => UNCHANGED <<state, frames>>
      ]_vars

\* both timers set to 3 in the first frame have run down to 0 and stayed there
C15_Witness ==
    /\ rom_file = CountdownRom
    /\ frames = 6
    /\ state.delay_timer = 0 /\ state.sound_timer = 0
    /\ Len(hist) = 2
    /\ Latest.name = "SetVxFromTimer" /\ Latest.post.registers[2] = 0
    /\ state.registers[0] = 3

\* C16: when a frame body ends, the tone is on iff the sound timer is not zero.
C16_ToneFollowsSoundTimer ==
    FrameDone => (beeper <=> state.sound_timer # 0)

\* the operands and the outcome of the 8XY_ instruction applied
AluX == Digit(arg.raw, 2)

AluY == Digit(arg.raw, 1)

AluN == Digit(arg.raw, 0)

OldVx == AluState(arg).registers[AluX]

OldVy == AluState(arg).registers[AluY]

NewV(r) == out.val.state.registers[r]

\* the instruction succeeded, left VF = flag and, where Vx is not VF itself,
\* Vx = value
AluGives(value, flag) ==
    /\ IsOk(out.val.err)
    /\ NewV(VF) = flag
    /\ AluX # VF => NewV(AluX) = value

\* C17: 8XY4 leaves Vx = (Vx + Vy) mod 256 and VF = 1 exactly when
\* Vx + Vy > 255, which is when the wrapped sum is below the old Vx; with
\* x = 15 the register holds the flag.
C17_AddWithCarry ==
    (out.fn = "execute" /\ AluN = 4) =>
        /\ AluGives((OldVx + OldVy) % 256, IF OldVx + OldVy > 255 THEN 1 ELSE 0)
        /\ (OldVx + OldVy > 255) <=> ((OldVx + OldVy) % 256 < OldVx)

\* 0xFF + 0x01 = 0x00 carry 1
C17_Witness ==
    /\ out.fn = "execute" /\ arg.raw = \h8124
    /\ OldVx = 255 /\ OldVy = 1
    /\ NewV(1) = 0 /\ NewV(VF) = 1

\* C18: 8XY5 leaves Vx = (Vx - Vy) mod 256 and VF = 1 iff Vx >= Vy; 8XY7
\* leaves Vx = (Vy - Vx) mod 256 and VF = 1 iff Vy >= Vx; VF = 0 otherwise; with
\* x = 15 the register holds the flag.
C18_SubtractWithBorrow ==
    /\ (out.fn = "execute" /\ AluN = 5) =>
          AluGives((OldVx - OldVy) % 256, IF OldVx >= OldVy THEN 1 ELSE 0)
    /\ (out.fn = "execute" /\ AluN = 7) =>
          AluGives((OldVy - OldVx) % 256, IF OldVy >= OldVx THEN 1 ELSE 0)

\* equal operands: result 0, flag 1; and a borrow the other way round
C18_Witness ==
    /\ out.fn = "execute" /\ arg.raw = \h8125
    /\ OldVx = 129 /\ OldVy = 129
    /\ NewV(1) = 0 /\ NewV(VF) = 1

\* C19: 8XY6 leaves Vx = Vy >> 1 and VF = bit 0 of Vy; 8XYE leaves
\* Vx = (Vy << 1) mod 256 and VF = bit 7 of Vy; Vy is the value register y held
\* before the instruction and the old Vx plays no part; with x = 15 the register
\* holds the flag.
C19_ShiftTakesVy ==
    /\ (out.fn = "execute" /\ AluN = 6) =>
          AluGives(OldVy \div 2, OldVy % 2)
    /\ (out.fn = "execute" /\ AluN = 14) =>
          AluGives((OldVy * 2) % 256, OldVy \div 128)

\* Vx = 2 and Vy = 129: the result is that of Vy
C19_Witness ==
    /\ out.fn = "execute" /\ arg.raw = \h812E
    /\ OldVx = 2 /\ OldVy = 129
    /\ NewV(1) = 2 /\ NewV(2) = 129 /\ NewV(VF) = 1

\* a | b, a & b, a ^ b bit by bit
BitsOf(a, b, op) ==
    LET bit(k) == CASE op = 1 -> IF Bit(a, k) + Bit(b, k) > 0 THEN 1 ELSE 0
                    [] op = 2 -> Bit(a, k) * Bit(b, k)
                    [] op = 3 -> (Bit(a, k) + Bit(b, k)) % 2
    IN  bit(0) + 2 * bit(1) + 4 * bit(2) + 8 * bit(3)
          + 16 * bit(4) + 32 * bit(5) + 64 * bit(6) + 128 * bit(7)

\* C20: 8XY1, 8XY2, 8XY3 store Vx OR Vy, Vx AND Vy, Vx XOR Vy into Vx and leave
\* VF = 0 whatever it held, also when x = 15 (the flag register then holds 0);
\* no register other than Vx and VF changes.
C20_LogicClearsFlag ==
    (out.fn = "execute" /\ AluN \in {1, 2, 3}) =>
        /\ AluGives(BitsOf(OldVx, OldVy, AluN), 0)
        /\ \A r \in 0 .. 15 :
              (r # AluX /\ r # VF) => NewV(r) = AluState(arg).registers[r]
        /\ [out.val.state EXCEPT !.registers = AluState(arg).registers] = AluState(arg)

\* VF = 255 before 8F23: the flag register ends at 0, not at VF xor V2
C20_Witness ==
    /\ out.fn = "execute" /\ arg.raw = \h8F23
    /\ OldVx = 255 /\ OldVy = 1
    /\ NewV(VF) = 0 /\ NewV(2) = 1

(***************************************************************************)
(* Instructions executed in a given machine state                          *)
(***************************************************************************)
\* a machine in the middle of a program: a call pending, both timers running,
\* pixels lit, a key held, a data byte stored, and the given registers and index
BusyState(regs, index) ==
    [Chip8StateNew(DefaultSettings) EXCEPT
        !.pc = \h0222,
        !.registers = regs,
        !.index = index,
        !.stack = << \h0204 >>,
        !.delay_timer = 7,
        !.sound_timer = 9,
        !.display = {0, 65, 2047},
        !.keypad = [pressed_keys |-> {3}, escape_pressed |-> FALSE],
        !.memory = MemSet(MemoryNew, \h0300, \hAB)]

\* registers that all differ, with the given values at x and at VF (at x
\* where they coincide)
RegsWith(x, vx, vf) ==
    [r \in 0 .. NUM_REGISTERS - 1 |->
        IF r = x THEN vx ELSE IF r = VF THEN vf ELSE 100 + r]

\* one cycle on the next word of the input: the fetch advances pc, the word is
\* decoded and the instruction executed
ExecuteIn ==
    /\ IF out.fn = "" THEN TRUE
       ELSE IsOk(out.val.err) /\ out.val.n < Len(arg.words)
    /\ LET n == IF out.fn = "" THEN 0 ELSE out.val.n
           s == IF out.fn = "" THEN arg.state ELSE out.val.state
           pre == [s EXCEPT !.pc = s.pc + 2]
           dec == Decode(arg.words[n + 1])
           ex == IF IsOk(dec.err) THEN Execute(dec.name, pre, dec.d, 0)
                 ELSE Failed(pre, dec.err)
       IN  out' = [fn |-> "execute",
                   val |-> [state |-> ex.state, err |-> ex.err, pre |-> pre,
                            d |-> dec.d, n |-> n + 1]]
    /\ UNCHANGED <<state, beeper, raw_mode, phase, cycle, result, rom_file,
                   mutex, listener, engine,
                   frames, events, hist, arg>>

\* the n-th word of the input has just been executed
Ran(n) == out.fn = "execute" /\ out.val.n = n

\* 7XNN: V1 and nn over all bytes; x = 0, x = 14 and x = 15 over the edge values
AddImmInputs ==
    {[words |-> << \h7100 + nn >>, state |-> BusyState(RegsWith(1, vx, 1), \h0123)] :
        nn \in Byte, vx \in Byte}
    \cup {[words |-> << \h7000 + 256 * x + nn >>,
           state |-> BusyState(RegsWith(x, vx, vf), \h0FFF)] :
            x \in {0, 14, 15}, nn \in EdgeBytes, vx \in EdgeBytes, vf \in {0, 1, 255}}

AddImmInit ==
    /\ Constructed(DefaultSettings, << >>)
    /\ arg \in AddImmInputs
    /\ out = NoOutput

SpecAddImm == AddImmInit /\ [][ExecuteIn]_vars

\* C21: 7XNN leaves Vx = (Vx + nn) mod 256 and everything else as it was: the
\* other registers (VF among them unless x = 15, carry or no carry), the program
\* counter, the index, the stack, memory, the timers, the display and the keypad.
C21_AddImmediateOnlyVx ==
    Ran(1) =>
        /\ IsOk(out.val.err)
        /\ out.val.state =
              [out.val.pre EXCEPT
                  !.registers[out.val.d.x] =
                      (out.val.pre.registers[out.val.d.x] + out.val.d.nn) % 256]
        /\ out.val.d.x # VF => out.val.state.registers[VF] = out.val.pre.registers[VF]

\* 0xFF + 0x02 wraps to 0x01 and VF stays 0
C21_Witness ==
    /\ Ran(1) /\ arg.words = << \h7E02 >>
    /\ out.val.pre.registers[14] = 255 /\ out.val.pre.registers[VF] = 0
    /\ out.val.state.registers[14] = 1 /\ out.val.state.registers[VF] = 0

\* the skip instructions: 3XNN and 4XNN with V1 over the edge values and nn over
\* all bytes; 5XY0 and 9XY0 with two registers and with x = y; EX9E and EXA1
\* with V1 a key or not, against several sets of held keys
SkipInputs ==
    {[words |-> << w + nn >>, state |-> BusyState(RegsWith(1, vx, 1), \h0123)] :
        w \in {\h3100, \h4100}, nn \in Byte, vx \in EdgeBytes}
    \cup {[words |-> << w >>,
           state |-> BusyState([RegsWith(1, vx, 1) EXCEPT ![2] = vy], \h0123)] :
            w \in {\h5120, \h9120}, vx \in EdgeBytes, vy \in EdgeBytes}
    \cup {[words |-> << w >>, state |-> BusyState(RegsWith(3, vx, 1), \h0123)] :
            w \in {\h5330, \h9330}, vx \in EdgeBytes}
    \cup {[words |-> << w >>,
           state |-> [BusyState(RegsWith(1, vx, 1), \h0123) EXCEPT
                         !.keypad.pressed_keys = keys]] :
            w \in {\hE19E, \hE1A1},
            vx \in 0 .. 17 \cup {128, 255},
            keys \in {{}, {0}, {3}, {15}, {0, 15}, {1, 2, 14}, 0 .. 15}}

SkipInit ==
    /\ Constructed(DefaultSettings, << >>)
    /\ arg \in SkipInputs
    /\ out = NoOutput

SpecSkip == SkipInit /\ [][ExecuteIn]_vars

\* the condition of the skip instruction executed, on the state it received
SkipCondition ==
    LET s == out.val.pre
        d == out.val.d
    IN  CASE d.opcode = 3 -> s.registers[d.x] = d.nn
          [] d.opcode = 4 -> s.registers[d.x] # d.nn
          [] d.opcode = 5 -> s.registers[d.x] = s.registers[d.y]
          [] d.opcode = 9 -> s.registers[d.x] # s.registers[d.y]
          [] d.opcode = 14 /\ d.nn = \h9E -> s.registers[d.x] \in s.keypad.pressed_keys
          [] d.opcode = 14 /\ d.nn = \hA1 -> s.registers[d.x] \notin s.keypad.pressed_keys

\* pc is post-fetch + 2 if the condition holds, post-fetch + 0 if not, and
\* nothing else differs
SkippedOnCondition ==
    out.val.state =
        [out.val.pre EXCEPT !.pc = out.val.pre.pc + (IF SkipCondition THEN 2 ELSE 0)]

\* C22 as stated: every skip instruction leaves pc at post-fetch + 2 when its
\* condition holds and at post-fetch + 0 when it does not, and changes nothing
\* else, whatever Vx holds.
C22_SkipsOnCondition == Ran(1) => SkippedOnCondition

\* the value EX9E or EXA1 looks up is not one of the sixteen keys
NoSuchKey == out.val.d.opcode = 14 /\ out.val.pre.registers[out.val.d.x] > 15

\* C22: 3XNN, 4XNN, 5XY0, 9XY0 always, and EX9E, EXA1 when Vx <= 15, succeed
\* and leave pc at post-fetch + 2 when the condition holds and at post-fetch + 0
\* when it does not, changing nothing else; EX9E and EXA1 with Vx > 15 fail with
\* the invalid key error and change nothing, pc included.
C22_SkipsOnValidCondition ==
    Ran(1) =>
        IF NoSuchKey
        THEN /\ out.val.err = Error("InvalidKey", "Invalid key index",
                                    out.val.pre.registers[out.val.d.x])
             /\ out.val.state = out.val.pre
        ELSE IsOk(out.val.err) /\ SkippedOnCondition

\* EXA1 with V1 = 16 and key 3 held: no key 16 is pressed, and the instruction
\* fails without skipping
C22_Witness ==
    /\ Ran(1) /\ arg.words = << \hE1A1 >>
    /\ out.val.pre.registers[1] = 16 /\ out.val.pre.keypad.pressed_keys = {3}
    /\ out.val.state.pc = out.val.pre.pc /\ ~IsOk(out.val.err)

\* index values for FX55 and FX65: the start of memory, into and across the
\* font, up to the program, at the stored data byte, and near the end of memory
BlockIndexes == {0, \h004E, \h009E, \h01FF, \h02FE, 4080, 4090}

\* FX55 alone, FX65 alone, and FX55 followed by a load of zeros from address 0,
\* the index set back and FX65; x over all registers
BlockInputs ==
    UNION {{[words |-> ws, state |-> BusyState(RegsWith(1, 255, 1), i)] :
              ws \in {<< \hF055 + 256 * x >>,
                      << \hF065 + 256 * x >>,
                      << \hF055 + 256 * x, \hA000, \hF065 + 256 * x,
                         \hA000 + i, \hF065 + 256 * x >>}} :
           x \in 0 .. 15, i \in BlockIndexes}

BlockInit ==
    /\ Constructed(DefaultSettings, << >>)
    /\ arg \in BlockInputs
    /\ out = NoOutput

SpecBlock == BlockInit /\ [][ExecuteIn]_vars

\* the word just executed is FX55 (nn = 0x55), FX65 (0x65) or FX33 (0x33)
\* with its operands inside memory: index + last < 4096
RanF(nn, last) ==
    /\ out.fn = "execute"
    /\ out.val.d.opcode = 15 /\ out.val.d.nn = nn
    /\ out.val.pre.index + last < MEM_SIZE

\* C23: with I + x < 4096, FX55 writes V0..Vx to memory[I..I+x] and changes
\* no register and no other byte; FX65 loads memory[I..I+x] into V0..Vx and
\* changes no other register and no byte; either leaves the index at I + x + 1
\* and nothing else changed; and after FX55 at I, whatever happens to V0..Vx,
\* FX65 with the index back at I gives V0..Vx their values again.
C23_StoreLoadBlock ==
    LET pre == out.val.pre
        post == out.val.state
        x == out.val.d.x
        I == pre.index
    IN  /\ RanF(\h55, out.val.d.x) =>
              /\ IsOk(out.val.err)
              /\ \A a \in 0 .. MEM_SIZE - 1 :
                    MemByte(post.memory, a) =
                        IF a \in I .. I + x THEN pre.registers[a - I]
                        ELSE MemByte(pre.memory, a)
              /\ post = [pre EXCEPT !.memory = post.memory, !.index = I + x + 1]
        /\ RanF(\h65, out.val.d.x) =>
              /\ IsOk(out.val.err)
              /\ \A r \in 0 .. NUM_REGISTERS - 1 :
                    post.registers[r] =
                        IF r <= x THEN MemByte(pre.memory, I + r) ELSE pre.registers[r]
              /\ post = [pre EXCEPT !.registers = post.registers, !.index = I + x + 1]
        /\ (Ran(5) /\ IsOk(out.val.err)) =>
              \A r \in 0 .. x : post.registers[r] = arg.state.registers[r]

\* V0..V3 stored across the end of the font, overwritten with zeros, and loaded
\* back
C23_Witness ==
    /\ Ran(5) /\ IsOk(out.val.err)
    /\ arg.words[1] = \hF355 /\ arg.state.index = \h009E
    /\ out.val.pre.registers[3] = 0
    /\ out.val.state.registers[3] = 103 /\ out.val.state.registers[1] = 255
    /\ out.val.state.index = \h00A2

\* FX33: V1 over all bytes at several index values, the last with I + 2 = 4095
\* and two beyond it; x = 0 and x = 15 over the edge values
BcdInputs ==
    {[words |-> << \hF133 >>, state |-> BusyState(RegsWith(1, vx, 1), i)] :
        vx \in Byte, i \in {0, \h0050, \h009E, \h02FF, 4093, 4094, 4096}}
    \cup {[words |-> << \hF033 + 256 * x >>, state |-> BusyState(RegsWith(x, vx, 1), \h0300)] :
            x \in {0, 15}, vx \in EdgeBytes \cup {9, 10, 99, 100, 199, 200, 234}}

BcdInit ==
    /\ Constructed(DefaultSettings, << >>)
    /\ arg \in BcdInputs
    /\ out = NoOutput

SpecBcd == BcdInit /\ [][ExecuteIn]_vars

\* C24: with I + 2 < 4096, FX33 succeeds and leaves at memory[I], memory[I+1],
\* memory[I+2] decimal digits h, t, o with 100h + 10t + o = Vx; no other byte of
\* memory, no register, not the index and nothing else changes.
C24_BcdDigits ==
    LET pre == out.val.pre
        post == out.val.state
        I == pre.index
        h == MemByte(post.memory, I)
        t == MemByte(post.memory, I + 1)
        o == MemByte(post.memory, I + 2)
    IN  RanF(\h33, 2) =>
            /\ IsOk(out.val.err)
            /\ {h, t, o} \subseteq 0 .. 9
            /\ 100 * h + 10 * t + o = pre.registers[out.val.d.x]
            /\ \A a \in 0 .. MEM_SIZE - 1 :
                  a \notin I .. I + 2 => MemByte(post.memory, a) = MemByte(pre.memory, a)
            /\ post = [pre EXCEPT !.memory = post.memory]

\* 234 gives 2, 3, 4
C24_Witness ==
    /\ Ran(1) /\ arg.words = << \hF033 >>
    /\ out.val.pre.registers[0] = 234 /\ out.val.pre.index = \h0300
    /\ MemByte(out.val.state.memory, \h0300) = 2
    /\ MemByte(out.val.state.memory, \h0301) = 3
    /\ MemByte(out.val.state.memory, \h0302) = 4

\* FX29: Vx over all bytes, for x = 0, 1 and 15
FontInputs ==
    {[words |-> << \hF029 + 256 * x >>, state |-> BusyState(RegsWith(x, vx, 1), \h0ABC)] :
        x \in {0, 1, 15}, vx \in Byte}

FontInit ==
    /\ Constructed(DefaultSettings, << >>)
    /\ arg \in FontInputs
    /\ out = NoOutput

SpecFont == FontInit /\ [][ExecuteIn]_vars

\* the sprite of a hexadecimal digit: five rows of four pixels, the leftmost
\* pixel the highest of the four bits
Glyph(digit) ==
    CASE digit = 0 -> << 15, 9, 9, 9, 15 >>
      [] digit = 1 -> << 2, 6, 2, 2, 7 >>
      [] digit = 2 -> << 15, 1, 15, 8, 15 >>
      [] digit = 3 -> << 15, 1, 15, 1, 15 >>
      [] digit = 4 -> << 9, 9, 15, 1, 1 >>
      [] digit = 5 -> << 15, 8, 15, 1, 15 >>
      [] digit = 6 -> << 15, 8, 15, 9, 15 >>
      [] digit = 7 -> << 15, 1, 2, 4, 4 >>
      [] digit = 8 -> << 15, 9, 15, 9, 15 >>
      [] digit = 9 -> << 15, 9, 15, 1, 15 >>
      [] digit = 10 -> << 15, 9, 15, 9, 9 >>
      [] digit = 11 -> << 14, 9, 14, 9, 14 >>
      [] digit = 12 -> << 15, 8, 8, 8, 15 >>
      [] digit = 13 -> << 14, 9, 9, 9, 14 >>
      [] digit = 14 -> << 15, 8, 15, 8, 15 >>
      [] digit = 15 -> << 15, 8, 15, 8, 8 >>

\* C25: FX29 sets the index to 0x50 + (Vx mod 16) * 5 and changes nothing else;
\* the five bytes from there lie inside the font table 0x50..0x9F, and in memory
\* as constructed they hold the rows of the glyph of the digit Vx mod 16 in their
\* high four bits.
C25_FontCharSelectsGlyph ==
    LET pre == out.val.pre
        post == out.val.state
        digit == pre.registers[out.val.d.x] % 16
    IN  (out.fn = "execute" /\ out.val.d.opcode = 15 /\ out.val.d.nn = \h29) =>
            /\ IsOk(out.val.err)
            /\ post = [pre EXCEPT !.index = \h50 + digit * 5]
            /\ post.index >= \h50 /\ post.index + 4 <= \h9F
            /\ \A k \in 0 .. 4 :
                  MemByte(MemoryNew, post.index + k) = 16 * Glyph(digit)[k + 1]

\* Vx = 0xAB selects the glyph of B at 0x87
C25_Witness ==
    /\ Ran(1) /\ arg.words = << \hF129 >>
    /\ out.val.pre.registers[1] = \hAB
    /\ out.val.state.index = \h87
    /\ MemByte(MemoryNew, out.val.state.index) = \hE0

(***************************************************************************)
(* Memory::write followed by Memory::read                                  *)
(***************************************************************************)
\* addresses at the ends of memory, of the font table and of the program area,
\* and past the end of memory
EdgeAddresses ==
    {0, \h0050, \h009F, \h0200, \h0300, 4095,
     4096, 4097, 4096 + \h50, 8191, 8192, 65535, 65536}

\* a memory with a program loaded and data stored
UsedMemory == MemSet(LoadRom(MemoryNew, << 0, \hE0, \h12, 0 >>).mem, \h0300, \hAB)

\* every address of memory and a few past it with one value each, and the edge
\* addresses with every value, on fresh and on used memory
MemoryInputs ==
    {[addr |-> a, value |-> (7 * a + 1) % 256, mem |-> MemoryNew] : a \in 0 .. MEM_SIZE + 3}
    \cup {[addr |-> a, value |-> v, mem |-> MemoryNew] : a \in EdgeAddresses, v \in Byte}
    \cup {[addr |-> a, value |-> v, mem |-> UsedMemory] :
            a \in EdgeAddresses, v \in EdgeBytes \cup {\hAB, \hE0}}

MemoryInit ==
    /\ Constructed(DefaultSettings, << >>)
    /\ arg \in MemoryInputs
    /\ out = NoOutput

\* memory.write(addr, value)
WriteByte ==
    /\ out.fn = ""
    /\ out' = [fn |-> "write", val |-> [w |-> MemWrite(arg.mem, arg.addr, arg.value)]]
    /\ UNCHANGED <<state, beeper, raw_mode, phase, cycle, result, rom_file,
                   mutex, listener, engine,
                   frames, events, hist, arg>>

\* memory.read(addr) on the memory the write left
ReadByte ==
    /\ out.fn = "write"
    /\ out' = [fn |-> "read",
               val |-> [w |-> out.val.w, r |-> MemRead(out.val.w.mem, arg.addr)]]
    /\ UNCHANGED <<state, beeper, raw_mode, phase, cycle, result, rom_file,
                   mutex, listener, engine,
                   frames, events, hist, arg>>

SpecMemory == MemoryInit /\ [][WriteByte \/ ReadByte]_vars

\* C26: for a < 4096, write(a, v) succeeds, leaves v at a and every other
\* address as it was, and read(a) then succeeds with v; for a >= 4096, write
\* fails out of bounds leaving memory exactly as it was and read fails out of
\* bounds.
C26_WriteThenRead ==
    /\ (out.fn = "write" /\ arg.addr < MEM_SIZE) =>
          /\ IsOk(out.val.w.err)
          /\ \A b \in 0 .. MEM_SIZE - 1 :
                MemByte(out.val.w.mem, b) =
                    IF b = arg.addr THEN arg.value ELSE MemByte(arg.mem, b)
    /\ (out.fn = "read" /\ arg.addr < MEM_SIZE) =>
          IsOk(out.val.r.err) /\ out.val.r.val = arg.value
    /\ (out.fn = "write" /\ arg.addr >= MEM_SIZE) =>
          /\ out.val.w.err.kind = "OutOfBounds"
          /\ out.val.w.mem = arg.mem
    /\ (out.fn = "read" /\ arg.addr >= MEM_SIZE) =>
          out.val.r.err.kind = "OutOfBounds"

\* 0x5A written over the first font byte and read back
C26_Witness ==
    /\ out.fn = "read" /\ arg.addr = \h0050 /\ arg.value = \h5A
    /\ MemByte(arg.mem, \h0050) = \hF0
    /\ out.val.r.val = \h5A

(***************************************************************************)
(* Programs of every size, loaded                                          *)
(***************************************************************************)
\* program lengths up to, at and beyond MEM_SIZE - PC_START_ADDR = 3584
RomLengths == {0, 1, 2, 5, 80, 3583, 3584, 3585, 3586, 4000, 4096, 5000}

\* a ROM file of len bytes: byte k is (mul * k + add) mod 256
FilledRom(len, mul, add) == [k \in 1 .. len |-> (mul * k + add) % 256]

SizedRoms ==
    {FilledRom(len, f[1], f[2]) :
        len \in RomLengths,
        f \in {<< 0, 0 >>, << 0, 255 >>, << 0, \hF0 >>, << 1, 0 >>, << 7, 3 >>, << 255, 1 >>}}

LoadInit ==
    /\ \E rom \in SizedRoms, settings \in {DefaultSettings, SlowSettings} :
          Constructed(settings, rom)
    /\ NoFunction

\* run up to the loading of the program
SpecLoad == LoadInit /\ [][RunSetup]_vars

\* C27: loading a program of length L succeeds exactly when L <= 3584; then
\* memory[0x200 .. 0x200 + L) holds the program and every other byte, the font
\* table included, is what construction left; when it fails, with the program
\* too large error, no byte of memory has changed.
C27_LoadFitsOrFails ==
    LET L == Len(rom_file)
        fresh == Chip8StateNew(state.settings)
    IN  phase # "idle" =>
            /\ phase = "frame" <=> L <= 4096 - \h200
            /\ phase = "returned" <=> L > 3584
            /\ phase = "frame" =>
                  /\ result = NoError
                  /\ \A a \in 0 .. MEM_SIZE - 1 :
                        MemByte(state.memory, a) =
                            IF a >= \h200 /\ a < \h200 + L THEN rom_file[a - \h200 + 1]
                            ELSE MemByte(fresh.memory, a)
                  /\ \A a \in \h50 .. \h9F :
                        MemByte(state.memory, a) = FontData[a - \h50 + 1]
            /\ phase = "returned" =>
                  /\ result.kind = "ProgramTooLarge"
                  /\ state.memory = fresh.memory
            /\ state = [fresh EXCEPT !.memory = state.memory]

\* a program of 3584 bytes fills memory to its last address
C27_Witness ==
    /\ phase = "frame" /\ Len(rom_file) = 3584
    /\ rom_file[3584] = 255
    /\ MemByte(state.memory, 4095) = 255
    /\ MemByte(state.memory, \h01FF) = 0

(***************************************************************************)
(* Programs that point the index register into the font table              *)
(***************************************************************************)
\* V0 := random, I := target, then the instruction, then a jump to itself
FontRom(target, word) == WordBytes(<< \hC00F, \hA000 + target, word, \h1206 >>)

\* FX55 at the start of the font table, FX33 at its end and across it, FX65 and
\* FX29 and a draw of a glyph, which only read it
FontRoms ==
    {FontRom(\h0050, \hF055), FontRom(\h009D, \hF033), FontRom(\h009F, \hF033),
     FontRom(\h0050, \hF365), FontRom(\h0050, \hF029), FontRom(\h0055, \hD005)}

FontRomInit ==
    /\ \E rom \in FontRoms, settings \in {DefaultSettings, SlowSettings} :
          Constructed(settings, rom)
    /\ NoFunction

SpecFontRom == FontRomInit /\ [][QuietNext]_vars

\* C28: whatever the program has executed, the 80 bytes at 0x050..0x09F are the
\* sixteen glyphs construction put there.
C28_FontTableIntact ==
    \A a \in \h50 .. \h9F : MemByte(state.memory, a) = FontData[a - \h50 + 1]

(***************************************************************************)
(* The program that clears the screen and jumps to itself                  *)
(***************************************************************************)
\* 00E0 at 0x200, 1202 at 0x202
LoopRom == WordBytes(<< \h00E0, \h1202 >>)

LoopInit ==
    /\ \E settings \in {DefaultSettings, SlowSettings} : Constructed(settings, LoopRom)
    /\ NoFunction

\* the loop of run goes on from one step to the next for as long as it can
SpecLoop == LoopInit /\ [][QuietNext]_vars /\ WF_vars(QuietNext)

\* C29: running 00E0, 1202, run never returns and no error is raised; the
\* program counter is at one of the two instructions between cycles; at the end
\* of every frame no pixel is lit; and the frames follow each other, every one
\* of them up to the last frame followed being completed (frames are counted
\* one by one, so the last is reached through all the others).
C29_ClearAndLoopForever ==
    /\ [](/\ phase # "returned"
          /\ result = NoError
          /\ state.pc \in {\h200, \h202}
          /\ hist # << >> => IsOk(Latest.err) /\ Latest.at \in {\h200, \h202}
          /\ FrameDone => state.display = {})
    /\ [][frames' \in {frames, frames + 1}]_vars
    /\ <>(FrameDone /\ frames = MaxFrames)

\* the last frame followed has ended on the jump, with the screen clear
C29_Witness ==
    /\ FrameDone /\ frames = MaxFrames
    /\ Latest.name = "Jump" /\ Latest.at = \h202 /\ Before.name = "Jump"
    /\ state.pc = \h202
    /\ state.display = {}

\* C30: the stop signal is looked at when a frame is about to start and at no
\* other time.  A frame starts only from that check, with Escape not pressed; if
\* Escape is pressed at the check, run returns successfully with no instruction
\* executed and no timer or anything else of the machine changed; a step of the
\* batch never ends the run except with the error of a failing cycle, Escape
\* pressed or not; so a successful return finds Escape pressed and a whole
\* batch, or none, executed before it.
C30_StopOnlyBetweenFrames ==
    /\ [][/\ (phase = "frame" /\ phase' # "frame") =>
                IF IsEscapePressed(state.keypad)
                THEN /\ phase' = "returned" /\ result' = NoError
                     /\ state' = state /\ hist' = hist
                     /\ frames' = frames /\ cycle' = cycle
                ELSE phase' = "cycle" /\ frames' = frames + 1 /\ cycle' = 0
          /\ frames' # frames => (phase = "frame" /\ ~IsEscapePressed(state.keypad))
          /\ (phase = "cycle" /\ phase' = "returned") => ~IsOk(result')
          /\ (phase = "cycle" /\ IsEscapePressed(state.keypad) /\ hist' # hist) =>
                (cycle' = cycle + 1 \/ phase' = "returned")]_vars
    /\ []((phase = "returned" /\ IsOk(result)) =>
            /\ IsEscapePressed(state.keypad)
            /\ frames = 0 \/ cycle = InstructionsPerFrame(state.settings) + 1)

\* Escape pressed during a batch: the batch was completed, then run returned
\* successfully
C30_Witness ==
    /\ phase = "returned" /\ result = NoError
    /\ IsEscapePressed(state.keypad)
    /\ frames = 2 /\ events = 1
    /\ cycle = InstructionsPerFrame(state.settings) + 1
    /\ hist # << >>

(***************************************************************************)
(* The Escape key pressed and released while a program waits for a key     *)
(***************************************************************************)
\* the listener is handed the press of Escape
EscapeDown ==
    /\ KeyPress
    /\ ~IsEscapePressed(state.keypad) /\ IsEscapePressed(state'.keypad)

\* the listener is handed the release of Escape
EscapeUp ==
    /\ KeyRelease
    /\ IsEscapePressed(state.keypad) /\ ~IsEscapePressed(state'.keypad)

\* the loop of run never stops of itself; the keyboard sends what and when it
\* likes, Escape only
SpecEscape ==
    LoopInit /\ [][QuietNext \/ EscapeDown \/ EscapeUp]_vars /\ WF_vars(QuietNext)

\* a press of Escape has been delivered to the listener: under SpecEscape the
\* first event is one
EscapeDelivered == events >= 1

ListenedKeys == {"KeyX", "Num1", "Escape"}

\* the listener closure, line 387: pressed_keys_clone.lock() on some event
ListenerLockKeys ==
    /\ listener.at = "listen"
    /\ events < MaxEvents
    /\ engine.at \notin {"done", "returned"}
    /\ mutex.pressed_keys = ""
    /\ \E type \in {"KeyPress", "KeyRelease"}, key \in ListenedKeys :
          listener' = [at |-> "keys_locked", type |-> type, key |-> key]
    /\ mutex' = [mutex EXCEPT !.pressed_keys = "listener"]
    /\ events' = events + 1
    /\ UNCHANGED <<state, beeper, raw_mode, phase, cycle, result, rom_file,
                   frames, hist, arg, out, engine>>

\* the listener closure, line 388: escape_pressed_clone.lock()
ListenerLockEscape ==
    /\ listener.at = "keys_locked"
    /\ mutex.escape_pressed = ""
    /\ mutex' = [mutex EXCEPT !.escape_pressed = "listener"]
    /\ listener' = [listener EXCEPT !.at = "both_locked"]
    /\ UNCHANGED <<state, beeper, raw_mode, phase, cycle, result, rom_file,
                   frames, events, hist, arg, out, engine>>

\* the keypad after the match of lines 390-406 on the listener's event
Matched(keypad, type, key) ==
    IF key = "Escape"
    THEN [keypad EXCEPT !.escape_pressed = (type = "KeyPress")]
    ELSE IF KeyFromRdev(key) = -1 THEN keypad
    ELSE IF type = "KeyPress"
    THEN [keypad EXCEPT !.pressed_keys = @ \cup {KeyFromRdev(key)}]
    ELSE [keypad EXCEPT !.pressed_keys = @ \ {KeyFromRdev(key)}]

\* what the engine's record notes of an event: the key sets that existed while
\* FX0A executed, and whether the key FX0A found has been released and pressed
\* again before release_key took the lock (0: neither, 1: released, 2: pressed
\* again), which a later release undoes
Noted(e, keypad, type, key) ==
    LET k == KeyFromRdev(key)
        scanning == e.at \in {"scan", "scan_locked", "write", "release", "release_locked"}
        pending == e.at \in {"write", "release"}
    IN  [e EXCEPT
            !.seen = IF scanning THEN @ \cup {keypad.pressed_keys} ELSE @,
            !.again = IF e.found = -1 \/ k # e.found THEN @
                      ELSE IF type = "KeyRelease" THEN (IF pending THEN 1 ELSE 0)
                      ELSE IF pending /\ @ = 1 THEN 2 ELSE @]

\* the listener closure, lines 390-406: the match on the event
ListenerMatch ==
    /\ listener.at = "both_locked"
    /\ mutex.pressed_keys = "listener" /\ mutex.escape_pressed = "listener"
    /\ LET keypad == Matched(state.keypad, listener.type, listener.key)
       IN  /\ state' = [state EXCEPT !.keypad = keypad]
           /\ engine' = Noted(engine, keypad, listener.type, listener.key)
    /\ listener' = [listener EXCEPT !.at = "matched"]
    /\ UNCHANGED <<beeper, raw_mode, phase, cycle, result, rom_file, frames,
                   events, hist, arg, out, mutex>>

\* the end of the closure: the guard declared last, escape, is dropped first
ListenerDropEscape ==
    /\ listener.at = "matched"
    /\ mutex' = [mutex EXCEPT !.escape_pressed = ""]
    /\ listener' = [listener EXCEPT !.at = "escape_dropped"]
    /\ UNCHANGED <<state, beeper, raw_mode, phase, cycle, result, rom_file,
                   frames, events, hist, arg, out, engine>>

\* the end of the closure: the guard keys is dropped, back to listen()
ListenerDropKeys ==
    /\ listener.at = "escape_dropped"
    /\ mutex' = [mutex EXCEPT !.pressed_keys = ""]
    /\ listener' = ListenerWaiting
    /\ UNCHANGED <<state, beeper, raw_mode, phase, cycle, result, rom_file,
                   frames, events, hist, arg, out, engine>>

ListenerStep ==
    \/ ListenerLockKeys \/ ListenerLockEscape \/ ListenerMatch
    \/ ListenerDropEscape \/ ListenerDropKeys

\* the variables no keypad query of the engine changes
EngineRest == <<beeper, cycle, result, rom_file, frames, events, hist, arg, out, listener>>

\* the instruction in execution: the one fetch read before advancing pc
Fetched == Decode(FetchInstruction([state EXCEPT !.pc = state.pc - 2]).raw)

\* where the engine goes after an instruction: the next instruction of the
\* batch (line 284) or, the batch over, the top of the next frame (line 264)
AfterInstruction == {"fetch", "check"}

\* is_escape_pressed, line 436: self.escape_pressed.lock()
EngineCheckLock ==
    /\ engine.at = "check"
    /\ mutex.escape_pressed = ""
    /\ mutex' = [mutex EXCEPT !.escape_pressed = "engine"]
    /\ engine' = [engine EXCEPT !.at = "check_locked"]
    /\ UNCHANGED <<state, raw_mode, phase>>
    /\ UNCHANGED EngineRest

\* a faulty is_escape_pressed: the guard outlives the call
EngineCheckReadHolding ==
    /\ engine.at = "check_locked"
    /\ LET escape == IsEscapePressed(state.keypad)
       IN  /\ engine' = [engine EXCEPT !.escape = escape,
                                       !.at = IF escape THEN "returned" ELSE "fetch"]
           /\ phase' = IF escape THEN "returned" ELSE phase
           /\ raw_mode' = IF escape THEN FALSE ELSE raw_mode
    /\ UNCHANGED <<state, mutex>>
    /\ UNCHANGED EngineRest

\* is_escape_pressed, line 436: the flag read and the guard dropped; run,
\* lines 264-267 and 303: on Escape the loop is left and raw mode disabled
EngineCheckRead ==
    /\ engine.at = "check_locked"
    /\ LET escape == IsEscapePressed(state.keypad)
       IN  /\ engine' = [engine EXCEPT !.escape = escape,
                                       !.at = IF escape THEN "returned" ELSE "fetch"]
           /\ phase' = IF escape THEN "returned" ELSE phase
           /\ raw_mode' = IF escape THEN FALSE ELSE raw_mode
    /\ mutex' = [mutex EXCEPT !.escape_pressed = ""]
    /\ UNCHANGED state
    /\ UNCHANGED EngineRest

\* run, lines 285-286: fetch, and the start of the instruction's execute
EngineFetch ==
    /\ engine.at = "fetch"
    /\ LET f == FetchInstruction(state)
           name == Decode(f.raw).name
       IN  /\ IsOk(f.err)
           /\ name \in {"GetKey", "SkipIfKeyPressed"}
           /\ state' = f.state
           /\ engine' = IF name = "GetKey"
                        THEN [engine EXCEPT !.at = "scan", !.i = 0,
                                            !.seen = {state.keypad.pressed_keys}]
                        ELSE [engine EXCEPT !.at = "query"]
    /\ UNCHANGED <<mutex, raw_mode, phase>>
    /\ UNCHANGED EngineRest

\* GetKey::execute, line 743: is_key_pressed(key i), its lock (state.rs 420)
EngineScanLock ==
    /\ engine.at = "scan"
    /\ mutex.pressed_keys = ""
    /\ mutex' = [mutex EXCEPT !.pressed_keys = "engine"]
    /\ engine' = [engine EXCEPT !.at = "scan_locked"]
    /\ UNCHANGED <<state, raw_mode, phase>>
    /\ UNCHANGED EngineRest

\* GetKey::execute, lines 741-744 and 757-759: contains(key i) and the guard
\* dropped; find stops at the first pressed key, and with none pc -= 2
EngineScanRead ==
    /\ engine.at = "scan_locked"
    /\ mutex' = [mutex EXCEPT !.pressed_keys = ""]
    /\ IF IsKeyPressed(state.keypad, engine.i)
       THEN /\ engine' = [engine EXCEPT !.at = "write", !.found = engine.i]
            /\ state' = state
       ELSE IF engine.i < 15
       THEN /\ engine' = [engine EXCEPT !.at = "scan", !.i = engine.i + 1]
            /\ state' = state
       ELSE /\ \E at \in AfterInstruction : engine' = [engine EXCEPT !.at = at]
            /\ state' = [state EXCEPT !.pc = state.pc - 2]
    /\ UNCHANGED <<raw_mode, phase>>
    /\ UNCHANGED EngineRest

\* GetKey::execute, lines 747-748: the key found is written to Vx
EngineWrite ==
    /\ engine.at = "write"
    /\ IsOk(RegErr(Fetched.d.x, Fetched.d.x))
    /\ state' = [state EXCEPT
                    !.registers = RegWrite(state.registers, Fetched.d.x, engine.found)]
    /\ engine' = [engine EXCEPT !.at = "release"]
    /\ UNCHANGED <<mutex, raw_mode, phase>>
    /\ UNCHANGED EngineRest

\* GetKey::execute, line 753: release_key, its lock (state.rs 429)
EngineReleaseLock ==
    /\ engine.at = "release"
    /\ mutex.pressed_keys = ""
    /\ mutex' = [mutex EXCEPT !.pressed_keys = "engine"]
    /\ engine' = [engine EXCEPT !.at = "release_locked"]
    /\ UNCHANGED <<state, raw_mode, phase>>
    /\ UNCHANGED EngineRest

\* release_key, lines 430-431: keys.remove(&key) and the guard dropped
EngineReleaseRemove ==
    /\ engine.at = "release_locked"
    /\ state' = [state EXCEPT !.keypad = ReleaseKey(state.keypad, engine.found)]
    /\ mutex' = [mutex EXCEPT !.pressed_keys = ""]
    /\ \E at \in AfterInstruction : engine' = [engine EXCEPT !.at = at]
    /\ UNCHANGED <<raw_mode, phase>>
    /\ UNCHANGED EngineRest

\* SkipIfKeyPressed::execute, line 566: is_key_pressed, its lock (state.rs 420)
EngineQueryLock ==
    /\ engine.at = "query"
    /\ IsOk(SkipIfKeyPressed(state, Fetched.d).err)
    /\ mutex.pressed_keys = ""
    /\ mutex' = [mutex EXCEPT !.pressed_keys = "engine"]
    /\ engine' = [engine EXCEPT !.at = "query_locked"]
    /\ UNCHANGED <<state, raw_mode, phase>>
    /\ UNCHANGED EngineRest

\* SkipIfKeyPressed::execute, lines 566-568: the key read, the guard dropped,
\* and the skip
EngineQueryRead ==
    /\ engine.at = "query_locked"
    /\ state' = SkipIfKeyPressed(state, Fetched.d).state
    /\ engine' = [engine EXCEPT
                     !.at = "done",
                     !.next = IsKeyPressed(state.keypad, state.registers[Fetched.d.x])]
    /\ mutex' = [mutex EXCEPT !.pressed_keys = ""]
    /\ UNCHANGED <<raw_mode, phase>>
    /\ UNCHANGED EngineRest

EngineStep ==
    \/ EngineCheckLock \/ EngineCheckRead \/ EngineFetch
    \/ EngineScanLock \/ EngineScanRead \/ EngineWrite
    \/ EngineReleaseLock \/ EngineReleaseRemove
    \/ EngineQueryLock \/ EngineQueryRead

\* the keys held down when the frame begins
HeldKeys == {{}, {1}, {0, 1}}

\* run at the top of a frame of the key-reading program, its first instruction
\* (V0 := 0xAA) executed and FX0A next
KeysInit ==
    /\ \E keys \in HeldKeys :
          state = [Chip8StateNew(SlowSettings) EXCEPT
                      !.memory = LoadRom(MemoryNew, KeyRom).mem,
                      !.pc = PC_START_ADDR + 2,
                      !.registers = RegWrite(@, 0, \hAA),
                      !.keypad = [@ EXCEPT !.pressed_keys = keys]]
    /\ beeper = FALSE
    /\ raw_mode = TRUE
    /\ phase = "frame"
    /\ cycle = 0
    /\ result = NoError
    /\ rom_file = KeyRom
    /\ frames = 1
    /\ events = 0
    /\ hist = << >>
    /\ mutex = NoHolder
    /\ listener = ListenerWaiting
    /\ engine = [EngineElsewhere EXCEPT !.at = "check"]
    /\ NoFunction

\* the two threads, in every interleaving of their steps
SpecKeys == KeysInit /\ [][EngineStep \/ ListenerStep]_vars

\* the engine has called a keypad query and not yet acquired its lock
EngineAsks == engine.at \in {"check", "scan", "release", "query"}

\* what holds of the locks in every state: the engine holds at most one, inside
\* a query only, and the listener holds none while it waits for an event
LockDiscipline ==
    /\ ~(mutex.pressed_keys = "engine" /\ mutex.escape_pressed = "engine")
    /\ mutex.pressed_keys = "engine"
         <=> engine.at \in {"scan_locked", "release_locked", "query_locked"}
    /\ mutex.escape_pressed = "engine" <=> engine.at = "check_locked"
    /\ listener.at = "listen"
         => mutex.pressed_keys # "listener" /\ mutex.escape_pressed # "listener"

\* a step that changes the key set or the flag, or hands one to the engine, is
\* taken by a thread that holds its mutex
LockedAccess ==
    /\ state'.keypad.pressed_keys # state.keypad.pressed_keys
         => mutex.pressed_keys = (IF engine.at = "release_locked" THEN "engine" ELSE "listener")
    /\ state'.keypad.escape_pressed # state.keypad.escape_pressed
         => mutex.escape_pressed = "listener"
    /\ (engine'.found # engine.found \/ engine'.next # engine.next)
         => mutex.pressed_keys = "engine"
    /\ engine'.escape # engine.escape => mutex.escape_pressed = "engine"

\* the listener inside its closure: the steps that need no event
ListenerFinish ==
    ListenerLockEscape \/ ListenerMatch \/ ListenerDropEscape \/ ListenerDropKeys

\* no circular wait: a query of the engine either gets its lock at once or
\* waits for the listener, which is then inside its closure and can go on
\* towards dropping its guards without the engine; and the listener waits for
\* the engine only while the engine can finish its query
NoCircularWait ==
    /\ EngineAsks => ENABLED EngineStep \/ ENABLED ListenerFinish
    /\ listener.at # "listen" => ENABLED ListenerFinish \/ ENABLED EngineCheckRead

\* C32: the key set and the escape flag are read and written only under their
\* mutex, the engine holds at most one keypad lock at a time and none while
\* the listener waits for an event, and under every interleaving of listener
\* events and engine queries no thread waits for a lock whose holder cannot
\* go on: every query the engine makes gets its lock and returns
C32_QueriesReturn ==
    /\ [](LockDiscipline /\ NoCircularWait)
    /\ [][LockedAccess]_vars

\* the listener holds the key set and waits for the flag while the engine
\* reads the flag
C32_Witness ==
    /\ listener.at = "keys_locked"
    /\ engine.at = "check_locked"
    /\ mutex = [pressed_keys |-> "listener", escape_pressed |-> "engine"]

(***************************************************************************)
(* EX9E and EXA1 on a register that may hold no key index                  *)
(***************************************************************************)
\* the values of Vx: every key index, the first two values past them, the edges
KeyValues == 0 .. 17 \cup {128, 255}

\* EX9E or EXA1 on V1, followed by V1 += 1, against several sets of held keys
KeySkipInputs ==
    {[words |-> << w, \h7101, \h7101 >>,
      state |-> [BusyState(RegsWith(1, vx, 1), \h0123) EXCEPT
                    !.keypad.pressed_keys = keys]] :
        w \in {\hE19E, \hE1A1},
        vx \in KeyValues,
        keys \in {{}, {0}, {1}, {15}, {0, 15}, 0 .. 15}}

KeySkipInit ==
    /\ Constructed(DefaultSettings, << >>)
    /\ arg \in KeySkipInputs
    /\ out = NoOutput

SpecKeySkip == KeySkipInit /\ [][ExecuteIn]_vars

\* the key instruction has been executed
RanKeySkip == Ran(1) /\ out.val.d.opcode = 14

\* C33: EX9E and EXA1 with Vx > 15 fail with the invalid-key-index error and
\* leave pc and every other part of the state as fetch left them, and no
\* further instruction of the batch is executed; with Vx in 0..15 they succeed
C33_KeyIndexChecked ==
    /\ RanKeySkip =>
          LET vx == out.val.pre.registers[out.val.d.x]
          IN  IF vx > 15
              THEN /\ out.val.err = Error("InvalidKey", "Invalid key index", vx)
                   /\ out.val.state = out.val.pre
              ELSE IsOk(out.val.err)
    /\ (out.fn = "execute" /\ out.val.n > 1) => arg.state.registers[1] <= 15

\* EX9E on V1 = 16 with key 0 held has failed
C33_Witness ==
    /\ RanKeySkip
    /\ out.val.d.nn = \h9E
    /\ out.val.pre.registers[1] = 16
    /\ out.val.pre.keypad.pressed_keys = {0}
    /\ ~IsOk(out.val.err)

(***************************************************************************)
(* The index register past the end of memory                               *)
(***************************************************************************)
\* values ANNN puts in the index register: the top of memory
TopAddresses == {\h0FF0, \h0FFB, \h0FFD, \h0FFE, \h0FFF}

\* the instructions that address memory through the index register
IndexUses == {\hF033, \hF255, \hF265, \hD125, \hD121}

\* ANNN, then a second assignment of the index register (FX1E with V0, or the
\* increment FX55 and FX65 end with, or FX29 followed by FX1E), then a use
IndexInputs ==
    {[words |-> << \hA000 + nnn >> \o mid \o << use >>,
      state |-> BusyState(RegsWith(0, v0, 1), 0)] :
        nnn \in TopAddresses,
        mid \in {<< \hF01E >>, << \hF155 >>, << \hF065 >>, << \hF129, \hF01E >>},
        use \in IndexUses,
        v0 \in {0, 1, 2, 5, 255}}

IndexInit ==
    /\ Constructed(DefaultSettings, << >>)
    /\ arg \in IndexInputs
    /\ out = NoOutput

SpecIndex == IndexInit /\ [][ExecuteIn]_vars

\* the last address the instruction executed touches through the index
\* register, -1 when it touches none
LastTouched ==
    LET d == out.val.d
        index == out.val.pre.index
    IN  CASE d.opcode = 13 /\ d.n > 0 -> index + d.n - 1
          [] d.opcode = 15 /\ d.nn = \h33 -> index + 2
          [] d.opcode = 15 /\ d.nn \in {\h55, \h65} -> index + d.x
          [] OTHER -> -1

\* the value an instruction that succeeded has left in the index register
IndexAssigned ==
    LET d == out.val.d
        s == out.val.pre
    IN  CASE d.opcode = 10 -> d.nnn
          [] d.opcode = 15 /\ d.nn = \h1E -> s.index + s.registers[d.x]
          [] d.opcode = 15 /\ d.nn = \h29 -> FONT_ADDR + FONT_HEIGHT * (s.registers[d.x] % 16)
          [] d.opcode = 15 /\ d.nn \in {\h55, \h65} -> s.index + d.x + 1
          [] OTHER -> s.index

\* no byte differs between the two memories
SameBytes(m1, m2) == \A a \in DOMAIN m1 \cup DOMAIN m2 : MemByte(m1, a) = MemByte(m2, a)

\* C34: ANNN, FX1E and FX29 never fail and, with the increment that ends a
\* successful FX55 or FX65, leave their value in the index register unreduced
\* even above 4095; an FX33, FX55, FX65 or DXYN (n > 0) that would touch an
\* address >= 4096 fails with an out-of-bounds error and writes no byte below
\* the index register, and one that stays below 4096 succeeds
C34_IndexBoundAtUse ==
    out.fn = "execute" =>
        LET d == out.val.d
        IN  /\ (d.opcode = 10 \/ (d.opcode = 15 /\ d.nn \in {\h1E, \h29}))
                  => IsOk(out.val.err)
            /\ IsOk(out.val.err) => out.val.state.index = IndexAssigned
            /\ LastTouched # -1 =>
                  IF LastTouched >= MEM_SIZE
                  THEN /\ out.val.err.kind = "OutOfBounds"
                       /\ \A a \in 0 .. MEM_SIZE - 1 :
                             a < out.val.pre.index =>
                               MemByte(out.val.state.memory, a) = MemByte(out.val.pre.memory, a)
                  ELSE IsOk(out.val.err)

\* FX55 has left 4096 in the index register and the FX33 after it has failed
C34_Witness ==
    /\ Ran(3)
    /\ out.val.pre.index = MEM_SIZE
    /\ out.val.d.nn = \h33
    /\ out.val.err.kind = "OutOfBounds"
    /\ arg.words[2] = \hF155

(***************************************************************************)
(* Fetch at the end of memory                                              *)
(***************************************************************************)
\* a program that fills memory: a jump to its last two instructions, the
\* second of them last
TopRom(last) ==
    [k \in 1 .. MEM_SIZE - PC_START_ADDR |->
        CASE k = 1 -> \h1F  [] k = 2 -> \hFC          \* 200: jump to FFC
          [] k = MEM_SIZE - PC_START_ADDR - 3 -> \h00
          [] k = MEM_SIZE - PC_START_ADDR - 2 -> \hE0  \* FFC: clear the screen
          [] k = MEM_SIZE - PC_START_ADDR - 1 -> last \div 256
          [] k = MEM_SIZE - PC_START_ADDR -> last % 256 \* FFE: last
          [] OTHER -> 0]

\* a jump to nnn + V0, V0 a random byte or 255
OffsetRom(first, nnn) == WordBytes(<< first, \hB000 + nnn >>)

\* the program runs off the end, skips from the last instruction, jumps to
\* 0xFFD from it, or jumps with an offset to the last addresses and past them
EdgeRoms ==
    {TopRom(last) : last \in {\h00E0, \h3000, \h4000, \h1FFD}}
    \cup {OffsetRom(first, nnn) : first \in {\hC0FF, \h60FF}, nnn \in {\h0F00, \h0FFF}}

EdgeInit ==
    /\ \E rom \in EdgeRoms, settings \in {DefaultSettings, SlowSettings} :
          Constructed(settings, rom)
    /\ NoFunction

SpecEdge == EdgeInit /\ [][QuietNext]_vars

\* C35: a fetch at pc = p <= 4094 reads the word memory[p] * 256 + memory[p + 1]
\* and hands the operation a state with pc = p + 2 and nothing else changed; a
\* fetch at p >= 4095 fails with the out-of-bounds error, reading no byte and
\* leaving pc at p, and ends the run
C35_FetchWithinMemory ==
    hist # << >> =>
        LET c == Latest
        IN  IF c.at <= MEM_SIZE - 2
            THEN /\ c.raw = MemByte(c.pre.memory, c.at) * 256 + MemByte(c.pre.memory, c.at + 1)
                 /\ c.pre.pc = c.at + 2
                 /\ Len(hist) = 2 /\ IsOk(Before.err) => c.pre = [Before.post EXCEPT
                        !.pc = c.at + 2,
                        !.delay_timer = c.pre.delay_timer,
                        !.sound_timer = c.pre.sound_timer,
                        !.keypad = c.pre.keypad]
            ELSE /\ c.err = Error("OutOfBounds", "Program counter out of bounds", c.at)
                 /\ c.raw = -1
                 /\ c.post = c.pre /\ c.post.pc = c.at
                 /\ phase = "returned" /\ result = c.err

\* the program counter went from 0xFFE past the end by a skip, and the fetch
\* at 0x1002 has failed
C35_Witness ==
    /\ Len(hist) = 2
    /\ Before.at = MEM_SIZE - 2 /\ Before.name = "JumpEqX"
    /\ Latest.at = MEM_SIZE + 2
    /\ ~IsOk(Latest.err)

(***************************************************************************)
(* The machine at its first fetch                                          *)
(***************************************************************************)
\* programs of several kinds and sizes, the empty one and one too large
StartRoms ==
    {KeyRom, LoopRom, << >>, << \hFF >>,
     FilledRom(MEM_SIZE - PC_START_ADDR, 7, 3),
     FilledRom(MEM_SIZE - PC_START_ADDR + 1, 7, 3)}

StartInit ==
    /\ \E rom \in StartRoms, settings \in {DefaultSettings, SlowSettings} :
          Constructed(settings, rom)
    /\ NoFunction

SpecStart == StartInit /\ [][Next]_vars

\* s is the machine as constructed but for the program in memory, the keys the
\* listener has seen, and the program counter
FreshlyLoaded(s, pc) ==
    /\ s.pc = pc
    /\ s.index = 0
    /\ s.stack = << >>
    /\ s.delay_timer = 0 /\ s.sound_timer = 0
    /\ \A r \in 0 .. NUM_REGISTERS - 1 : s.registers[r] = 0
    /\ s.display = {}
    /\ \A i \in 1 .. Len(FontData) : MemByte(s.memory, FONT_ADDR + i - 1) = FontData[i]
    /\ \A k \in 1 .. Len(rom_file) : MemByte(s.memory, PC_START_ADDR + k - 1) = rom_file[k]

\* C36: when the first instruction is fetched the program counter is 0x200,
\* the index register 0, the stack empty, both timers 0, every register 0,
\* every pixel clear, the font table at 0x50..0x9F and the program at 0x200;
\* no cycle runs before the program is loaded, and run never goes back to the
\* state before the load
C36_FirstFetchState ==
    /\ [](/\ (phase = "cycle" /\ hist = << >>) => FreshlyLoaded(state, PC_START_ADDR)
          /\ Len(hist) = 1 =>
                /\ Latest.at = PC_START_ADDR
                /\ Latest.raw # -1
                /\ FreshlyLoaded(Latest.pre, PC_START_ADDR + 2)
          /\ phase = "idle" => hist = << >> /\ state.memory = MemoryNew)
    /\ [][/\ phase' = "idle" => phase = "idle"
          /\ hist' # hist => phase = "cycle"]_vars

\* the first instruction of the largest program that fits has been fetched
C36_Witness ==
    /\ Len(hist) = 1
    /\ Len(rom_file) = MEM_SIZE - PC_START_ADDR
    /\ Latest.at = PC_START_ADDR
    /\ Latest.raw = rom_file[1] * 256 + rom_file[2]

(***************************************************************************)
(* The terminal when run returns                                           *)
(***************************************************************************)
\* C37: whenever run has returned, through the Escape exit or with the error
\* of a failing load, fetch or instruction, terminal raw mode is disabled
C37_RawModeRestored == phase = "returned" => ~raw_mode

(***************************************************************************)
(* The flag-producing instructions with the flag register as destination   *)
(***************************************************************************)
\* the last digits of 8XY4, 8XY5, 8XY7, 8XY6 and 8XYE
FlagDigits == {4, 5, 7, 6, 14}

\* 8FYn on VF and Vy over the edge values, with y = 2 and with y = 15
FlagRegInputs ==
    {[words |-> << \h8F00 + 16 * y + n >>, state |-> BusyState(RegsWith(2, vy, vf), \h0123)] :
        y \in {2, VF}, n \in FlagDigits, vy \in EdgeBytes, vf \in EdgeBytes}

FlagRegInit ==
    /\ Constructed(DefaultSettings, << >>)
    /\ arg \in FlagRegInputs
    /\ out = NoOutput

SpecFlagReg == FlagRegInit /\ [][ExecuteIn]_vars

\* the carry, no-borrow or shifted-out bit of 8XYn on the operands vx and vy
FlagBit(n, vx, vy) ==
    CASE n = 4 -> IF vx + vy > 255 THEN 1 ELSE 0
      [] n = 5 -> IF vx >= vy THEN 1 ELSE 0
      [] n = 7 -> IF vy >= vx THEN 1 ELSE 0
      [] n = 6 -> vy % 2
      [] n = 14 -> vy \div 128

\* C38: after 8XY4, 8XY5, 8XY7, 8XY6 or 8XYE with x = 15 the flag register
\* holds the carry, no-borrow or shifted-out bit of the operand values the
\* registers held before the instruction (the flag write comes last), no other
\* register has changed and the instruction has not failed
C38_FlagOverwritesResult ==
    (Ran(1) /\ out.val.d.opcode = 8 /\ out.val.d.x = VF /\ out.val.d.n \in FlagDigits) =>
        LET d == out.val.d
            old == out.val.pre.registers
        IN  /\ IsOk(out.val.err)
            /\ out.val.state =
                  [out.val.pre EXCEPT !.registers[VF] = FlagBit(d.n, old[VF], old[d.y])]

\* 8F2E on V2 = 127: the result 254 is overwritten by the shifted-out bit 0
C38_Witness ==
    /\ Ran(1)
    /\ arg.words = << \h8F2E >>
    /\ out.val.pre.registers[2] = 127
    /\ out.val.state.registers[VF] = 0

(***************************************************************************)
(* FX0A against the listener                                               *)
(***************************************************************************)
\* FX0A has written the key it found to Vx
KeyStored == engine.at \in {"release", "release_locked"}

\* C39: the key FX0A stores in Vx is the lowest pressed key of a key set the
\* keypad held at some instant of the instruction's execution
C39_StoresLowestOfAnInstant ==
    KeyStored =>
        \E keys \in engine.seen :
            state.registers[Fetched.d.x] = FindPressed([KeypadNew EXCEPT !.pressed_keys = keys])

\* C40: when, between FX0A finding key k pressed and its release_key(k), the
\* listener delivers a release of k and then a new press of k that no later
\* event releases, the next query of key k finds it pressed
C40_NewPressSurvives ==
    (engine.at = "done" /\ engine.again = 2) => engine.next

====
